---- MODULE Spec2Model ----
(***************************************************************************)
(* Model of KlipperSettingsPlugin._filterGcode (the gcode annotation pass  *)
(* run when a sliced file is saved) and of the command formatters it       *)
(* calls.                                                                  *)
(*                                                                         *)
(* A gcode layer is a sequence of lines (the result of layer.split("\n")). *)
(* A line is a record                                                      *)
(*    k  the command word or marker prefix of the line                     *)
(*    s  the string that follows a marker prefix (mesh or feature name)    *)
(*    n  the integer carried by the line (layer number, tool number, ...)  *)
(*    x  the extruder suffix of a pressure advance command (digits)        *)
(*    p  the KEY=value parameters of a command, in order                   *)
(*    c  TRUE when the line ends with the plugin signature comment         *)
(* Indices line_nr and layer_nr are 0-based as in the source.              *)
(***************************************************************************)
EXTENDS Integers, Sequences, FiniteSets, TLC

VARIABLES
    gcode_dict,             \* scene.gcode_dict: plates in dict order, each a list of layers
    cfg,                    \* settings snapshot read through getProperty / getInstance
    warning_msg,            \* self._warning_msg
    shown,                  \* messages handed to showMessage by _showWarningMessage
    pc,                     \* position inside _filterGcode
    raised_by,              \* the exception that left _filterGcode ("" when none did)
    runs,                   \* number of invocations started so far
    plate_nr,               \* position of the plate loop (line 399), 1-based
    gcode_changed,          \* line 395
    new_gcode_commands,     \* line 397
    pressure_advance_enabled, \* line 379, reassigned at line 646
    active_extruder_list,   \* line 371
    active_mesh_features,   \* line 373
    new_layer,              \* line 669: "unbound", "true" or "false"
    feature_type,           \* line 712: "unbound" or a feature name
    extruder_fw_retraction, \* lines 456-477
    z_offset_layer_0,       \* lines 532, 538
    extruder_factors,       \* line 570
    per_mesh_factors,       \* line 573
    current_factor,         \* line 571
    extruder_nr,            \* line 652
    current_layer_nr,       \* line 653
    current_mesh,           \* line 654
    feature_type_error,     \* line 655
    layer_nr,               \* line 657
    line_nr,                \* line 660
    lines,                  \* line 658
    lines_changed,          \* line 659
    input0,                 \* history: gcode_dict when the current invocation started
    tool,                   \* history: extruder named by the latest T<n> line of the stream
    mesh_marker,            \* history: name on the latest ;MESH: line of the plate scan
    deferred,               \* history: feature of the latest deferred ;TYPE: line of the scan
    log,                    \* history: resolutions made in the current plate scan
    call,                   \* a formatter call: the function and its arguments
    result,                 \* what the formatter call gave: a command line or an exception
    top,                    \* stack.getTop(): the user's instance of each setting
    user_settings,          \* self._user_settings (line 122), in insertion order
    self_override_on,       \* self._override_on (line 124)
    current_preset          \* self._current_preset (line 123)

vars == <<gcode_dict, cfg, warning_msg, shown, pc, raised_by, runs, plate_nr, gcode_changed,
          new_gcode_commands, pressure_advance_enabled, active_extruder_list,
          active_mesh_features, new_layer, feature_type, extruder_fw_retraction,
          z_offset_layer_0, extruder_factors, per_mesh_factors, current_factor,
          extruder_nr, current_layer_nr, current_mesh, feature_type_error,
          layer_nr, line_nr, lines, lines_changed, input0, tool, mesh_marker, deferred, log,
          call, result, top, user_settings, self_override_on, current_preset>>

\* the state of the tuning tower presets
preset_vars == <<top, user_settings, self_override_on, current_preset>>

-----------------------------------------------------------------------------
(* Bounds of the model *)

MaxRuns   == 2      \* invocations of _filterGcode in one behaviour
MaxBody   == 3      \* lines after the layer marker in the printed layer of a scan input
MaxPlates == 2      \* plates of a job set

-----------------------------------------------------------------------------
(* Lines *)

\* A KEY=value parameter: v is a numeric value, w a string value (a sequence of
\* characters, empty when the value is a number)
Param(key, v)  == [key |-> key, v |-> v, w |-> <<>>]
ParamS(key, w) == [key |-> key, v |-> 0, w |-> w]

Ln(k, s, n, x, p, c) == [k |-> k, s |-> s, n |-> n, x |-> x, p |-> p, c |-> c]

Other        == Ln("G1", "", 0, <<>>, <<>>, FALSE)         \* any line the scan does not recognise
Blank        == Ln("", "", 0, <<>>, <<>>, FALSE)
LayerLine(n) == Ln(";LAYER:", "", n, <<>>, <<>>, FALSE)
BadLayerLine == Ln(";LAYER:", "x", 0, <<>>, <<>>, FALSE)  \* int(line[7:]) raises ValueError
ToolLine(n)  == Ln("T", "", n, <<>>, <<>>, FALSE)
MeshLine(m)  == Ln(";MESH:", m, 0, <<>>, <<>>, FALSE)
TypeLine(f)  == Ln(";TYPE:", f, 0, <<>>, <<>>, FALSE)
ZMove        == Ln("G0 Z", "", 0, <<>>, <<>>, FALSE)      \* a move to Z = layer_height_0
Processed    == Ln(";KLIPPERSETTINGSPROCESSED", "", 0, <<>>, <<>>, FALSE)

\* a command without the signature
Unsigned(line) == [line EXCEPT !.c = FALSE]

\* self.comment (line 105): the signature every new command carries
Signed(line) == [line EXCEPT !.c = TRUE]

\* The "no command" result of a formatter (a Python function that falls off its end)
NoCommand == Ln("None", "", 0, <<>>, <<>>, FALSE)

\* A property value that is not a number (None, a string)
NotANumber == -1000

\* a list assignment seq[i] = e in place of list.insert
ReplaceAt(seq, i, e) ==
    IF i >= Len(seq) THEN Append(seq, e) ELSE [seq EXCEPT ![i + 1] = e]

InsertAt(seq, i, e) ==
    IF i >= Len(seq) THEN Append(seq, e)
    ELSE SubSeq(seq, 1, i) \o <<e>> \o SubSeq(seq, i + 1, Len(seq))

Range(f) == {f[i] : i \in DOMAIN f}

MaxOf(S) == CHOOSE m \in S : \A y \in S : y <= m

-----------------------------------------------------------------------------
(* Setting key tables (lines 1451-1499) *)

\* __pressure_advance_setting_key: the order of the keys is the order of the dict
pressure_advance_setting_key ==
    << "_FACTORS", "_WALLS", "_SUPPORTS", "LAYER_0",
       "WALL-OUTER", "WALL-INNER", "SKIN", "FILL",
       "SUPPORT", "SUPPORT-INTERFACE", "PRIME-TOWER", "SKIRT" >>

FeatureKeys == Range(pressure_advance_setting_key)

\* __firmware_retraction_setting_key
firmware_retraction_setting_key ==
    << "retract_length", "unretract_extra_length", "retract_speed", "unretract_speed" >>

\* __velocity_limit_setting_key
velocity_limit_setting_key ==
    << "velocity", "accel", "accel_to_decel", "square_corner_velocity" >>

\* str.upper() on the parameter names the formatters write
Upper(key) ==
    CASE key = "retract_length"         -> "RETRACT_LENGTH"
      [] key = "unretract_extra_length" -> "UNRETRACT_EXTRA_LENGTH"
      [] key = "retract_speed"          -> "RETRACT_SPEED"
      [] key = "unretract_speed"        -> "UNRETRACT_SPEED"
      [] key = "velocity"               -> "VELOCITY"
      [] key = "accel"                  -> "ACCEL"
      [] key = "accel_to_decel"         -> "ACCEL_TO_DECEL"
      [] key = "square_corner_velocity" -> "SQUARE_CORNER_VELOCITY"
      [] key = "shaper_freq_x"          -> "SHAPER_FREQ_X"
      [] key = "shaper_freq_y"          -> "SHAPER_FREQ_Y"
      [] key = "shaper_type_x"          -> "SHAPER_TYPE_X"
      [] key = "shaper_type_y"          -> "SHAPER_TYPE_Y"
      [] key = "shaper_type"            -> "SHAPER_TYPE"
      [] key = "damping_ratio_x"        -> "DAMPING_RATIO_X"
      [] key = "damping_ratio_y"        -> "DAMPING_RATIO_Y"
      [] key = "command"                -> "COMMAND"
      [] key = "parameter"              -> "PARAMETER"
      [] key = "start"                  -> "START"
      [] key = "skip"                   -> "SKIP"
      [] key = "factor"                 -> "FACTOR"
      [] key = "band"                   -> "BAND"
      [] key = "step_delta"             -> "STEP_DELTA"
      [] key = "step_height"            -> "STEP_HEIGHT"
      [] OTHER                          -> key

UpperAll(ps) == [i \in DOMAIN ps |-> [ps[i] EXCEPT !.key = Upper(ps[i].key)]]

\* str.endswith on the retraction keys
EndsWithSpeed(key)  == key \in {"retract_speed", "unretract_speed"}
EndsWithLength(key) == key \in {"retract_length", "unretract_extra_length"}

-----------------------------------------------------------------------------
(* Command formatters *)

\* str(extruder_nr): decimal digits of a non-negative integer
RECURSIVE Digits(_)
Digits(n) == IF n < 10 THEN <<n>> ELSE Append(Digits(n \div 10), n % 10)

\* str.strip('0'): removes the '0' characters at both ends of the string
RECURSIVE LStrip0(_)
LStrip0(ds) == IF ds # <<>> /\ Head(ds) = 0 THEN LStrip0(Tail(ds)) ELSE ds
RECURSIVE RStrip0(_)
RStrip0(ds) ==
    IF ds # <<>> /\ ds[Len(ds)] = 0 THEN RStrip0(SubSeq(ds, 1, Len(ds) - 1)) ELSE ds
Strip0(nr) == RStrip0(LStrip0(Digits(nr)))

\* _gcodePressureAdvance (lines 813-827); raises TypeError when a value is no number
PressureAdvanceRaises(pressure_advance, smooth_time) ==
    pressure_advance = NotANumber \/ smooth_time = NotANumber

\* a formatter that leaves out an ADVANCE of 0
gcodePressureAdvancePositive(suffix, pressure_advance, smooth_time) ==
    Ln("SET_PRESSURE_ADVANCE", "", 0, suffix,
       (IF pressure_advance > 0 THEN <<Param("ADVANCE", pressure_advance)>> ELSE <<>>)
       \o (IF smooth_time > 0 THEN <<Param("SMOOTH_TIME", smooth_time)>> ELSE <<>>),
       TRUE)

\* lines 813-827; the EXTRUDER parameter is "extruder" followed by the digits of suffix
gcodePressureAdvance(suffix, pressure_advance, smooth_time) ==
    Ln("SET_PRESSURE_ADVANCE", "", 0, suffix,
       (IF pressure_advance >= 0 THEN <<Param("ADVANCE", pressure_advance)>> ELSE <<>>)
       \o (IF smooth_time > 0 THEN <<Param("SMOOTH_TIME", smooth_time)>> ELSE <<>>),
       TRUE)

\* a filter that asks a length to be positive as well
RetractionKeepPositive(prm) == prm.v > 0

\* _gcodeFirmwareRetraction (lines 849-863); the result does not carry the signature
RetractionKeep(prm) ==
    \/ EndsWithSpeed(prm.key) /\ prm.v > 0
    \/ EndsWithLength(prm.key) /\ prm.v >= 0

gcodeFirmwareRetraction(retraction_settings) ==
    LET kept == SelectSeq(retraction_settings, RetractionKeep)
    IN  IF kept # <<>>
        THEN Ln("SET_RETRACTION", "", 0, <<>>, UpperAll(kept), FALSE)
        ELSE NoCommand

\* a filter that keeps every limit that is not negative
VelocityKeepNonNegative(prm) == prm.v >= 0

\* _gcodeVelocityLimits (lines 829-847)
VelocityKeep(prm) ==
    \/ prm.key # "square_corner_velocity" /\ prm.v > 0
    \/ prm.key = "square_corner_velocity" /\ prm.v >= 0

gcodeVelocityLimits(velocity_limits) ==
    LET kept == SelectSeq(velocity_limits, VelocityKeep)
    IN  IF kept # <<>>
        THEN Ln("SET_VELOCITY_LIMIT", "", 0, <<>>, UpperAll(kept), FALSE)
        ELSE NoCommand

\* the warnings _gcodeVelocityLimits appends to self._warning_msg (lines 844-845)
VelocityWarnings(velocity_limits, override_on) ==
    LET kept == SelectSeq(velocity_limits, VelocityKeep)
        zero(prm) == prm.key = "square_corner_velocity" /\ prm.v = 0
    IN  IF override_on THEN <<>>
        ELSE [i \in DOMAIN SelectSeq(kept, zero) |-> "Square Corner Velocity Limit = 0"]

\* _gcodeInputShaper (lines 865-889).  shaper_settings is the dict in key order;
\* the type values are strings, the others numbers.
ShaperGet(shaper_settings, key) ==
    LET i == CHOOSE j \in DOMAIN shaper_settings : shaper_settings[j].key = key
    IN  shaper_settings[i]

IsTypeKey(key) == key \in {"shaper_type_x", "shaper_type_y", "shaper_type"}  \* key.startswith("type", 7)

Disabled == <<"d", "i", "s", "a", "b", "l", "e", "d">>

UpperChar(ch) ==
    CASE ch = "m" -> "M" [] ch = "z" -> "Z" [] ch = "v" -> "V" [] ch = "e" -> "E"
      [] ch = "i" -> "I" [] ch = "d" -> "D" [] ch = "s" -> "S" [] ch = "a" -> "A"
      [] ch = "b" -> "B" [] ch = "l" -> "L" [] OTHER -> ch
UpperStr(w) == [i \in DOMAIN w |-> UpperChar(w[i])]

\* a formatter that keeps one type per axis
ShaperNoMerge(shaper_settings) == shaper_settings

\* lines 869-871: one shaper_type entry, moved to the end of the dict, when both types agree
ShaperMerge(shaper_settings) ==
    IF ShaperGet(shaper_settings, "shaper_type_x").w = ShaperGet(shaper_settings, "shaper_type_y").w
    THEN LET notType(prm) == prm.key \notin {"shaper_type_x", "shaper_type_y"}
         IN  Append(SelectSeq(shaper_settings, notType),
                    ParamS("shaper_type", ShaperGet(shaper_settings, "shaper_type_x").w))
    ELSE shaper_settings

ShaperKeep(prm) ==
    \/ IsTypeKey(prm.key) /\ prm.w # Disabled
    \/ ~IsTypeKey(prm.key) /\ prm.v >= 0

ShaperKept(shaper_settings) == SelectSeq(ShaperMerge(shaper_settings), ShaperKeep)

gcodeInputShaper(shaper_settings) ==
    LET kept == ShaperKept(shaper_settings)
    IN  IF kept # <<>>
        THEN Ln("SET_INPUT_SHAPER", "", 0, <<>>,
                [i \in DOMAIN kept |->
                    [key |-> Upper(kept[i].key), v |-> kept[i].v,
                     w |-> IF IsTypeKey(kept[i].key) THEN UpperStr(kept[i].w) ELSE kept[i].w]],
                FALSE)
        ELSE NoCommand

\* value_warnings (line 877) and the warning of lines 886-887
ShaperValueWarnings(shaper_settings) ==
    LET zero(prm) == ~IsTypeKey(prm.key) /\ prm.v = 0
    IN  Len(SelectSeq(ShaperKept(shaper_settings), zero))

\* the text of line 887 for a count ("%d" of value_warnings; at most 4 numbers)
ShaperWarningText(value_warnings) ==
    CASE value_warnings = 1 -> "1 Input Shaper setting(s) = 0"
      [] value_warnings = 2 -> "2 Input Shaper setting(s) = 0"
      [] value_warnings = 3 -> "3 Input Shaper setting(s) = 0"
      [] OTHER              -> "4 Input Shaper setting(s) = 0"

ShaperWarnings(shaper_settings, override_on) ==
    IF ShaperKept(shaper_settings) # <<>> /\ ~override_on
       /\ ShaperValueWarnings(shaper_settings) # 0
    THEN <<ShaperWarningText(ShaperValueWarnings(shaper_settings))>>
    ELSE <<>>

\* _gcodeTuningTower (lines 891-932).  tower_settings is the OrderedDict in key
\* order; tuning_method, command and parameter are strings.
IsStripChar(ch) == ch \in {" ", "\t", "'", "="}
RECURSIVE LStrip(_)
LStrip(w) == IF w # <<>> /\ IsStripChar(Head(w)) THEN LStrip(Tail(w)) ELSE w
RECURSIVE RStrip(_)
RStrip(w) == IF w # <<>> /\ IsStripChar(w[Len(w)]) THEN RStrip(SubSeq(w, 1, Len(w) - 1)) ELSE w
Strip(w) == RStrip(LStrip(w))

IsSpace(ch) == ch \in {" ", "\t"}
\* len(str.split()): the number of maximal runs of non-whitespace characters
WordCount(w) ==
    Cardinality({i \in DOMAIN w : ~IsSpace(w[i]) /\ (i = 1 \/ IsSpace(w[i - 1]))})

Quote(w) == <<"'">> \o w \o <<"'">>

\* a formatter that quotes every command
TowerCommandQuoted(w) == Quote(Strip(w))

\* lines 907-911
TowerCommand(w) == IF WordCount(Strip(w)) > 1 THEN Quote(Strip(w)) ELSE Strip(w)

TowerMethod(tower_settings) ==
    LET i == CHOOSE j \in DOMAIN tower_settings : tower_settings[j].key = "tuning_method"
    IN  tower_settings[i].w

Factor == <<"f", "a", "c", "t", "o", "r">>
Step   == <<"s", "t", "e", "p">>

\* a formatter that writes every setting but the method
TowerKeepAll(tower_settings, prm) == prm.key # "tuning_method"

\* lines 902-904, 914 and 916-920
TowerKeep(tower_settings, prm) ==
    /\ ~(prm.key \in {"skip", "band"} /\ prm.w = <<>> /\ prm.v = 0)
    /\ prm.key # "tuning_method"
    /\ ~(TowerMethod(tower_settings) = Factor /\ prm.key \in {"step_delta", "step_height"})
    /\ ~(TowerMethod(tower_settings) = Step /\ prm.key \in {"factor", "band"})

gcodeTuningTower(tower_settings) ==
    LET keep(prm) == TowerKeep(tower_settings, prm)
        kept == SelectSeq(tower_settings, keep)
    IN  Ln("TUNING_TOWER", "", 0, <<>>,
           [i \in DOMAIN kept |->
               [key |-> Upper(kept[i].key), v |-> kept[i].v,
                w |-> IF kept[i].key = "command" THEN TowerCommand(kept[i].w) ELSE kept[i].w]],
           FALSE)

\* the warning _gcodeTuningTower appends to self._warning_msg (lines 925-930)
TowerWarnings(used_extruder_stacks) ==
    IF Len(used_extruder_stacks) > 1
    THEN <<"Tuning Tower is Active; multiple extruders">>
    ELSE <<"Tuning Tower is Active">>

-----------------------------------------------------------------------------
(* _filterGcode, lines 408-647: the work done on one plate before the scan.  *)
(* Each section takes and returns the record s of the locals it touches:     *)
(*   l1 gcode_list[1], cmds new_gcode_commands, changed gcode_changed,       *)
(*   warn self._warning_msg, ael active_extruder_list, amf                   *)
(*   active_mesh_features, pa_en pressure_advance_enabled, fwr               *)
(*   extruder_fw_retraction, z0 z_offset_layer_0, ef extruder_factors, pmf   *)
(*   per_mesh_factors, cf current_factor, start_nr start_extruder_nr, and    *)
(*   ctl: "ok", "return" (a return statement) or "raise" (an exception that  *)
(*   leaves _filterGcode, named in err).                                     *)

HasLine(layer, kinds) == \E i \in DOMAIN layer : layer[i].k \in kinds

\* lines 410-415: re.search(r"(?m)^T([0-9])+$"): the first tool change line of the
\* start sequence; group(1) of the repeated group is the last digit matched
StartExtruderNr(layer1) ==
    IF HasLine(layer1, {"T"})
    THEN LET i == CHOOSE j \in DOMAIN layer1 :
                     layer1[j].k = "T" /\ \A h \in 1..(j - 1) : layer1[h].k # "T"
         IN  layer1[i].n % 10
    ELSE cfg.active_nr

\* _gcodeUiSupport (lines 787-811)
gcodeUiSupport(gcode) ==
    LET bed_temp_exists    == HasLine(gcode, {"M190", ";M190"})
        nozzle_temp_exists == HasLine(gcode, {"M109", ";M109"})
        nozzle_temp == IF cfg.nozzle_start_temp > 0 THEN cfg.nozzle_start_temp
                       ELSE cfg.nozzle_temp
        gcode_comment ==
            (IF bed_temp_exists THEN <<>>
             ELSE <<Ln(";M190", "", cfg.bed_temp, <<>>, <<>>, TRUE)>>)
            \o (IF nozzle_temp_exists THEN <<>>
                ELSE <<Ln(";M109", "", nozzle_temp, <<>>, <<>>, TRUE)>>)
    IN  IF gcode_comment # <<>>
        THEN <<Ln(";Support for Klipper UI", "", 0, <<>>, <<>>, FALSE)>> \o gcode_comment
        ELSE <<>>

\* lines 419-451
SecExperimental(s) ==
    IF s.ctl # "ok" \/ ~cfg.experimental_features_enabled THEN s
    ELSE LET s1 == IF ~cfg.mesh_calibrate_enabled \/ cfg.mesh_calibrate_exists THEN s
                   ELSE [s EXCEPT !.l1 = << Ln("M190", "", cfg.bed_temp, <<>>, <<>>, TRUE),
                                            Ln("G28", "", 0, <<>>, <<>>, TRUE),
                                            Ln("BED_MESH_CALIBRATE", "", 0, <<>>, <<>>, TRUE),
                                            Blank >> \o @,
                                  !.changed = TRUE]
         IN  IF ~cfg.ui_temp_support_enabled THEN s1
             ELSE [s1 EXCEPT !.cmds = @ \o gcodeUiSupport(s1.l1)]

\* the retraction settings of one extruder stack, in the order of the key table
RetractionSettings(nr) ==
    [i \in DOMAIN firmware_retraction_setting_key |->
        Param(firmware_retraction_setting_key[i],
              cfg.ext[nr].retr[firmware_retraction_setting_key[i]])]

\* line 477: the command of every entry of extruder_fw_retraction, plus self.comment;
\* None + str raises TypeError
RetractionTableRaises(table) ==
    \E nr \in DOMAIN table : gcodeFirmwareRetraction(table[nr]) = NoCommand

\* lines 453-483
SecRetraction(s) ==
    IF s.ctl # "ok" THEN s
    ELSE IF ~cfg.firmware_retract_enabled
    THEN [s EXCEPT !.fwr = [on |-> FALSE, cmd |-> <<>>]]
    ELSE LET multi   == Len(cfg.used) > 1
             keys    == IF multi THEN 0..(Len(cfg.used) - 1) ELSE {}
             usedSet == Range(cfg.used)
             \* getExtruderStack(start_extruder_nr) is None: AttributeError at line 467
             noStack  == s.start_nr \notin DOMAIN cfg.ext
             \* line 473: extruder_fw_retraction[extruder_nr] of a missing key
             keyError == multi /\ \E nr \in usedSet : nr \notin keys
             settings(nr) == IF nr \in usedSet THEN RetractionSettings(nr) ELSE <<>>
             initial == gcodeFirmwareRetraction(RetractionSettings(s.start_nr))
         IN  IF noStack
             THEN [s EXCEPT !.ctl = "raise", !.err = "AttributeError line 467"]
             ELSE IF keyError
             THEN [s EXCEPT !.ctl = "raise", !.err = "KeyError line 473"]
             ELSE IF RetractionTableRaises([nr \in keys |-> settings(nr)])
             THEN [s EXCEPT !.ctl = "raise", !.err = "TypeError line 477"]
             ELSE [s EXCEPT
                     !.fwr  = [on  |-> TRUE,
                               cmd |-> [nr \in keys |->
                                          Signed(gcodeFirmwareRetraction(settings(nr)))]],
                     !.ael  = @ \cup (IF multi THEN usedSet ELSE {}),
                     !.cmds = IF initial = NoCommand THEN @ ELSE Append(@, Signed(initial))]

\* lines 485-497
SecVelocity(s) ==
    IF s.ctl # "ok" \/ ~cfg.velocity_limits_enabled THEN s
    ELSE LET cmd == gcodeVelocityLimits(cfg.velocity)
         IN  [s EXCEPT !.cmds = IF cmd = NoCommand THEN @ ELSE Append(@, Signed(cmd)),
                       !.warn = @ \o VelocityWarnings(cfg.velocity, cfg.override_on)]

\* lines 499-511
SecShaper(s) ==
    IF s.ctl # "ok" \/ ~cfg.input_shaper_enabled THEN s
    ELSE LET cmd == gcodeInputShaper(cfg.shaper)
         IN  [s EXCEPT !.cmds = IF cmd = NoCommand THEN @ ELSE Append(@, Signed(cmd)),
                       !.warn = @ \o ShaperWarnings(cfg.shaper, cfg.override_on)]

\* lines 513-527
SecTower(s) ==
    IF s.ctl # "ok" \/ ~cfg.tuning_tower_enabled THEN s
    ELSE LET cmd == gcodeTuningTower(cfg.tower)
         IN  IF cmd = NoCommand
             THEN [s EXCEPT !.ctl = "return"]
             ELSE [s EXCEPT !.l1 = Append(@, Signed(cmd)),
                            !.changed = TRUE,
                            !.warn = @ \o TowerWarnings(cfg.used)]

\* lines 529-561
SecZOffset(s) ==
    IF s.ctl # "ok" THEN s
    ELSE IF ~cfg.z_offset_enabled THEN [s EXCEPT !.z0 = 0]
    ELSE LET s1 == IF ~cfg.z_offset_override THEN s
                   ELSE [s EXCEPT
                           !.l1 = Append(@, Ln("SET_GCODE_OFFSET Z=", "", cfg.z_offset_total,
                                               <<>>, <<>>, TRUE)),
                           !.changed = TRUE,
                           !.warn = <<"Z Offset Override is set">> \o @]
         IN  [s1 EXCEPT !.z0 = cfg.z_offset_layer_0,
                        !.warn = IF cfg.z_offset_layer_0 # 0
                                 THEN <<"Initial Layer Z Offset">> \o @ ELSE @]

\* lines 631-635: the features an instance value on a mesh is written to
MeshChildren(feature_key) ==
    IF feature_key = "_FACTORS" THEN <<"WALL-OUTER", "WALL-INNER", "SKIN", "FILL">>
    ELSE IF feature_key = "_WALLS" THEN <<"WALL-OUTER", "WALL-INNER">>
    ELSE IF feature_key = "_SUPPORTS" THEN <<"SUPPORT", "SUPPORT-INTERFACE">>
    ELSE <<feature_key>>

\* lines 624-637 for one node: the writes to per_mesh_factors, in order
RECURSIVE NodeWrites(_, _)
NodeWrites(node, i) ==
    IF i > Len(pressure_advance_setting_key) THEN <<>>
    ELSE LET feature_key == pressure_advance_setting_key[i]
             kids == MeshChildren(feature_key)
         IN  (IF feature_key \in DOMAIN node.inst
              THEN [j \in DOMAIN kids |->
                      [mesh |-> node.name, feature |-> kids[j], value |-> node.inst[feature_key]]]
              ELSE <<>>)
             \o NodeWrites(node, i + 1)

\* lines 618-639 for all nodes
RECURSIVE MeshWrites(_)
MeshWrites(nodes) ==
    IF nodes = <<>> THEN <<>> ELSE NodeWrites(Head(nodes), 1) \o MeshWrites(Tail(nodes))

\* a table in which the first write to a key stays
MeshFactorsFirst(writes) ==
    [pr \in {<<writes[i].mesh, writes[i].feature>> : i \in DOMAIN writes} |->
        LET first == CHOOSE i \in DOMAIN writes :
                        /\ <<writes[i].mesh, writes[i].feature>> = pr
                        /\ \A j \in DOMAIN writes :
                              <<writes[j].mesh, writes[j].feature>> = pr => i <= j
        IN  writes[first].value]

\* per_mesh_factors after the writes: the last write to a key stays
MeshFactors(writes) ==
    [pr \in {<<writes[i].mesh, writes[i].feature>> : i \in DOMAIN writes} |->
        LET last == MaxOf({i \in DOMAIN writes :
                             <<writes[i].mesh, writes[i].feature>> = pr})
        IN  writes[last].value]

\* line 597: the extruder has a feature value that differs from its primary value
ExtruderDiverges(nr) ==
    \E feature_key \in FeatureKeys :
        cfg.ext[nr].pa[feature_key] # cfg.ext[nr].pa["_FACTORS"]

\* lines 563-647
SecPressureAdvance(s) ==
    IF s.ctl # "ok" \/ (~s.pa_en /\ ~cfg.smooth_time_enabled) THEN s
    ELSE LET usedSet == Range(cfg.used)
             smooth_time_factor(nr) ==
                 IF cfg.smooth_time_enabled THEN cfg.ext[nr].smooth ELSE 0
             pressure_advance_factor(nr) ==
                 IF s.pa_en THEN cfg.ext[nr].pa["_FACTORS"] ELSE -1
             typeError == \E nr \in usedSet :
                 PressureAdvanceRaises(pressure_advance_factor(nr), smooth_time_factor(nr))
             start == [i \in DOMAIN cfg.used |->
                         gcodePressureAdvance(Strip0(cfg.used[i]),
                                              pressure_advance_factor(cfg.used[i]),
                                              smooth_time_factor(cfg.used[i]))]
             writes == IF s.pa_en THEN MeshWrites(cfg.nodes) ELSE <<>>
             apply == {nr \in usedSet : s.pa_en /\ ExtruderDiverges(nr)}
                      \cup {cfg.nodes[i].extruder : i \in
                              {j \in DOMAIN cfg.nodes :
                                 s.pa_en /\ DOMAIN cfg.nodes[j].inst # {}}}
         IN  IF typeError
             \* line 605 evaluates the undefined name pressure_adv_values: NameError
             THEN [s EXCEPT !.ctl = "raise", !.err = "NameError line 605"]
             ELSE IF s.pa_en /\ cfg.nodes = <<>>
             THEN [s EXCEPT !.ctl = "return"]          \* line 616
             ELSE [s EXCEPT
                    !.ef   = IF s.pa_en
                             THEN [pr \in usedSet \X FeatureKeys |-> cfg.ext[pr[1]].pa[pr[2]]]
                             ELSE <<>>,
                    !.cf   = IF s.pa_en
                             THEN [nr \in usedSet |-> pressure_advance_factor(nr)]
                             ELSE <<>>,
                    !.pmf  = MeshFactors(writes),
                    !.amf  = @ \cup {writes[i].feature : i \in DOMAIN writes},
                    !.cmds = @ \o start,
                    !.ael  = @ \cup apply,
                    !.pa_en = s.pa_en /\ apply # {}]

\* lines 408-647 in order
PlatePrologue(s) ==
    SecPressureAdvance(SecZOffset(SecTower(SecShaper(SecVelocity(
        SecRetraction(SecExperimental(s)))))))

-----------------------------------------------------------------------------
(* _filterGcode, lines 649-743: the scan of one plate, one line per step *)

\* layer.split("\n"): an empty text still gives one (empty) line
Split(layer) == IF layer = <<>> THEN <<Blank>> ELSE layer

\* truth value of extruder_fw_retraction (None and {} are false)
FwRetractionOn == extruder_fw_retraction.on /\ DOMAIN extruder_fw_retraction.cmd # {}

\* line 651
ScanNeeded(pa_en, z0, fwr) == pa_en \/ z0 # 0 \/ (fwr.on /\ DOMAIN fwr.cmd # {})

\* a regular expression without the negative lookahead for the signature
ZAxisChangeSigned(line) == line.k = ZMove.k

\* line 673: z_axis_regex.fullmatch(line); a line that carries the signature does not match
ZAxisChange(line) == line.k = ZMove.k /\ ~line.c

ZAdjust(z) == Ln("SET_GCODE_OFFSET Z_ADJUST=", "", z, <<>>, <<>>, TRUE)

\* a wrap that does not take the adjustment back after the move
WrapZMoveOpen(ls, nr, z) ==
    InsertAt([ls EXCEPT ![nr + 1] = Signed(@)], nr, ZAdjust(z))

\* lines 678-680
WrapZMove(ls, nr, z) ==
    InsertAt([InsertAt(ls, nr + 1, ZAdjust(-z)) EXCEPT ![nr + 1] = Signed(@)], nr, ZAdjust(z))

\* line 683
TracksToolChanges == Cardinality(active_extruder_list) > 1

\* line 685: the line is "T<i>" for an i of active_extruder_list
IsToolChange(line) == line.k = "T" /\ ~line.c /\ line.n \in active_extruder_list

\* a scan that maps the skirt of the initial layers to LAYER_0 as well
ActiveFeatureNoSkirt(name, layer_index) ==
    IF layer_index <= 0 THEN "LAYER_0" ELSE name

\* lines 714-715
ActiveFeature(name, layer_index) ==
    IF layer_index <= 0 /\ name # "SKIRT" THEN "LAYER_0" ELSE name

\* line 719
Deferred(feature) == new_layer = "true" /\ feature \in active_mesh_features

\* lines 728-729: dict.get evaluates its default, extruder_factors[...], first
ResolveRaises(feature, nr) == <<nr, feature>> \notin DOMAIN extruder_factors

Resolve(mesh, feature, nr) ==
    IF <<mesh, feature>> \in DOMAIN per_mesh_factors
    THEN per_mesh_factors[<<mesh, feature>>]
    ELSE extruder_factors[<<nr, feature>>]

\* a scan that inserts a command at every resolution
FactorChangedAlways(value, nr) == TRUE

\* line 733
FactorChanged(value, nr) ==
    IF nr \in DOMAIN current_factor THEN value # current_factor[nr] ELSE TRUE

\* a scan that leaves out line 724 and inserts before the marker
TypeInsertBefore(nr) == nr

\* line 724 (after a feature-type marker)
TypeInsertIndex(nr) == nr + 1

\* a scan that inserts the deferred command after the mesh marker
MeshInsertAfter(nr) == nr + 1

\* line 708 (before a mesh marker)
MeshInsertIndex(nr) == nr

\* lines 736-737
FeatureCommand(nr, value) == gcodePressureAdvance(Strip0(nr), value, 0)

\* One iteration of the loop of line 660 on lines[line_nr]: the values of the
\* locals after it, and ctl: "next" (the iteration ended or reached continue),
\* "break" (line 700) or "raise".
ScanStep ==
    LET line == lines[line_nr + 1]
        is_layer == line.k = ";LAYER:"
        \* lines 663-669
        cln == IF is_layer /\ line.s = "" THEN line.n ELSE current_layer_nr
        nl  == IF is_layer THEN (IF active_mesh_features # {} THEN "true" ELSE "false")
               ELSE new_layer
        \* lines 671-681
        zwrap == z_offset_layer_0 # 0 /\ cln = 0 /\ ZAxisChange(line)
        ls1 == IF zwrap THEN WrapZMove(lines, line_nr, z_offset_layer_0) ELSE lines
        \* lines 683-694
        tc   == TracksToolChanges /\ IsToolChange(line)
        enr  == IF tc THEN line.n ELSE extruder_nr
        retr == tc /\ FwRetractionOn /\ cln >= 0
        retrRaises == retr /\ enr \notin DOMAIN extruder_fw_retraction.cmd
        ls2 == IF retr /\ ~retrRaises
               THEN InsertAt(ls1, line_nr + 1, extruder_fw_retraction.cmd[enr]) ELSE ls1
        base == [ctl |-> "next", err |-> "", lines |-> ls2, changed |-> lines_changed \/ zwrap \/ retr,
                 current_layer_nr |-> cln, new_layer |-> nl, extruder_nr |-> enr,
                 current_mesh |-> current_mesh, feature_type |-> feature_type,
                 feature_type_error |-> feature_type_error,
                 current_factor |-> current_factor, log |-> log]
        \* lines 702-709
        is_mesh == line.k = ";MESH:" /\ line.s # "NONMESH"
        is_type == line.k = ";TYPE:"
        mesh == IF is_mesh THEN line.s ELSE current_mesh
        \* lines 711-715
        ft == IF is_type THEN ActiveFeature(line.s, cln) ELSE feature_type
        apply_new_factor == (is_mesh /\ feature_type_error) \/ (is_type /\ ~Deferred(ft))
        at == IF is_type THEN TypeInsertIndex(line_nr) ELSE MeshInsertIndex(line_nr)
    IN  IF retrRaises
        THEN [base EXCEPT !.ctl = "raise", !.err = "KeyError line 693"]
        ELSE IF ~pressure_advance_enabled
        THEN [base EXCEPT !.ctl = IF FwRetractionOn \/ (cln <= 0 /\ z_offset_layer_0 # 0)
                                  THEN "next" ELSE "break"]
        ELSE IF is_mesh /\ ~feature_type_error
        THEN [base EXCEPT !.current_mesh = mesh]
        ELSE IF is_type /\ nl = "unbound"
        THEN [base EXCEPT !.ctl = "raise", !.err = "UnboundLocalError line 719"]
        ELSE IF is_type /\ Deferred(ft)
        THEN [base EXCEPT !.feature_type = ft, !.feature_type_error = TRUE]
        ELSE IF ~apply_new_factor THEN base
        ELSE IF ResolveRaises(ft, enr)
        THEN [base EXCEPT !.ctl = "raise", !.err = "KeyError line 729"]
        ELSE LET value == Resolve(mesh, ft, enr)
                 ins   == FactorChanged(value, enr)
             IN  [base EXCEPT
                    !.current_mesh = mesh,
                    !.feature_type = ft,
                    !.feature_type_error = IF is_mesh THEN FALSE ELSE @,
                    !.new_layer = "false",
                    !.current_factor =
                        IF ins THEN [nr \in DOMAIN @ \cup {enr} |->
                                        IF nr = enr THEN value ELSE @[nr]]
                        ELSE @,
                    !.lines = IF ins THEN InsertAt(@, at, FeatureCommand(enr, value)) ELSE @,
                    !.changed = @ \/ ins,
                    !.log = Append(@, [layer_nr |-> layer_nr, line_nr |-> line_nr,
                                       marker |-> line.k, nr |-> enr, tool |-> tool,
                                       mesh |-> mesh, seen |-> mesh_marker,
                                       feature |-> ft, value |-> value,
                                       last |-> IF enr \in DOMAIN current_factor
                                                THEN current_factor[enr] ELSE NotANumber,
                                       inserted |-> ins])]

-----------------------------------------------------------------------------
(* _filterGcode as a state machine *)

NoRetraction == [on |-> FALSE, cmd |-> <<>>]

scan_locals == <<extruder_nr, current_layer_nr, current_mesh, feature_type_error,
                 layer_nr, line_nr, lines, lines_changed>>
plate_locals == <<extruder_fw_retraction, z_offset_layer_0, extruder_factors,
                  per_mesh_factors, current_factor>>

\* lines 357-397: entry of _filterGcode, up to the plate loop
Begin ==
    /\ pc \in {"idle", "done", "raised"}
    /\ runs < MaxRuns
    /\ runs' = runs + 1
    /\ input0' = gcode_dict
    /\ pc' = IF cfg.used = <<>> \/ gcode_dict = <<>> THEN "done" ELSE "plate"
    /\ raised_by' = ""
    /\ plate_nr' = 1
    /\ gcode_changed' = FALSE
    /\ new_gcode_commands' = <<>>
    /\ pressure_advance_enabled' = cfg.pressure_advance_enabled
    /\ active_extruder_list' = {}
    /\ active_mesh_features' = {}
    /\ new_layer' = "unbound"
    /\ feature_type' = "unbound"
    /\ extruder_fw_retraction' = NoRetraction
    /\ z_offset_layer_0' = 0
    /\ extruder_factors' = <<>>
    /\ per_mesh_factors' = <<>>
    /\ current_factor' = <<>>
    /\ extruder_nr' = 0
    /\ current_layer_nr' = -1
    /\ current_mesh' = "None"
    /\ feature_type_error' = FALSE
    /\ layer_nr' = 0
    /\ line_nr' = 0
    /\ lines' = <<>>
    /\ lines_changed' = FALSE
    /\ tool' = 0
    /\ mesh_marker' = "None"
    /\ deferred' = "None"
    /\ log' = <<>>
    /\ UNCHANGED preset_vars
    /\ UNCHANGED <<gcode_dict, cfg, warning_msg, shown, call, result>>

\* line 404
AlreadyProcessed(gcode_list) == HasLine(gcode_list[1], {Processed.k})

\* lines 399-406: a plate the loop passes over
SkipPlate ==
    /\ pc = "plate"
    /\ plate_nr <= Len(gcode_dict)
    /\ \/ Len(gcode_dict[plate_nr]) < 2
       \/ AlreadyProcessed(gcode_dict[plate_nr])
    /\ plate_nr' = plate_nr + 1
    /\ UNCHANGED preset_vars
    /\ UNCHANGED <<gcode_dict, cfg, warning_msg, shown, pc, raised_by, runs, gcode_changed,
                   new_gcode_commands, pressure_advance_enabled, active_extruder_list,
                   active_mesh_features, new_layer, feature_type, plate_locals,
                   scan_locals, input0, tool, mesh_marker, deferred, log, call, result>>

\* lines 399-655: the work on a plate before its scan
PlateBegin ==
    /\ pc = "plate"
    /\ plate_nr <= Len(gcode_dict)
    /\ Len(gcode_dict[plate_nr]) >= 2
    /\ ~AlreadyProcessed(gcode_dict[plate_nr])
    /\ LET gcode_list == gcode_dict[plate_nr]
           start_extruder_nr == StartExtruderNr(gcode_list[2])
           s == PlatePrologue(
                  [l1 |-> gcode_list[2], cmds |-> new_gcode_commands,
                   changed |-> gcode_changed, warn |-> warning_msg,
                   ael |-> active_extruder_list, amf |-> active_mesh_features,
                   pa_en |-> pressure_advance_enabled, fwr |-> extruder_fw_retraction,
                   z0 |-> z_offset_layer_0, ef |-> extruder_factors,
                   pmf |-> per_mesh_factors, cf |-> current_factor,
                   start_nr |-> start_extruder_nr, ctl |-> "ok", err |-> ""])
           scan == ScanNeeded(s.pa_en, s.z0, s.fwr)
       IN  /\ gcode_dict' = [gcode_dict EXCEPT ![plate_nr][2] = s.l1]
           /\ new_gcode_commands' = s.cmds
           /\ gcode_changed' = s.changed
           /\ warning_msg' = s.warn
           /\ active_extruder_list' = s.ael
           /\ active_mesh_features' = s.amf
           /\ pressure_advance_enabled' = s.pa_en
           /\ extruder_fw_retraction' = s.fwr
           /\ z_offset_layer_0' = s.z0
           /\ extruder_factors' = s.ef
           /\ per_mesh_factors' = s.pmf
           /\ current_factor' = s.cf
           /\ pc' = IF s.ctl = "raise" THEN "raised"
                    ELSE IF s.ctl = "return" THEN "done"
                    ELSE IF scan THEN "scan" ELSE "plate_end"
           /\ raised_by' = s.err
           \* lines 652-659
           /\ extruder_nr' = start_extruder_nr
           /\ tool' = start_extruder_nr
           /\ current_layer_nr' = -1
           /\ current_mesh' = "None"
           /\ feature_type_error' = FALSE
           /\ layer_nr' = 0
           /\ line_nr' = 0
           /\ lines' = Split(gcode_list[1])
           /\ lines_changed' = FALSE
           /\ mesh_marker' = "None"
           /\ deferred' = "None"
           /\ log' = <<>>
    /\ UNCHANGED preset_vars
    /\ UNCHANGED <<cfg, shown, runs, plate_nr, new_layer, feature_type, input0, call, result>>

\* lines 660-738: one line of the layer being scanned
ScanLine ==
    /\ pc = "scan"
    /\ LET r == ScanStep
           more == r.ctl = "next" /\ line_nr + 1 < Len(r.lines)
       IN  /\ pc' = IF r.ctl = "raise" THEN "raised"
                    ELSE IF more THEN "scan" ELSE "layer_end"
           /\ raised_by' = r.err
           /\ line_nr' = line_nr + 1
           /\ lines' = r.lines
           /\ lines_changed' = r.changed
           /\ current_layer_nr' = r.current_layer_nr
           /\ new_layer' = r.new_layer
           /\ extruder_nr' = r.extruder_nr
           /\ current_mesh' = r.current_mesh
           /\ feature_type' = r.feature_type
           /\ feature_type_error' = r.feature_type_error
           /\ current_factor' = r.current_factor
           /\ log' = r.log
           /\ tool' = IF lines[line_nr + 1].k = "T" /\ ~lines[line_nr + 1].c
                      THEN lines[line_nr + 1].n ELSE tool
           /\ mesh_marker' = IF lines[line_nr + 1].k = ";MESH:"
                             THEN lines[line_nr + 1].s ELSE mesh_marker
           /\ deferred' = IF r.ctl # "raise" /\ r.feature_type_error /\ Len(r.log) = Len(log)
                             /\ pressure_advance_enabled /\ lines[line_nr + 1].k = ";TYPE:"
                          THEN r.feature_type ELSE deferred
    /\ UNCHANGED preset_vars
    /\ UNCHANGED <<gcode_dict, cfg, warning_msg, shown, runs, plate_nr, gcode_changed,
                   new_gcode_commands, pressure_advance_enabled, active_extruder_list,
                   active_mesh_features, extruder_fw_retraction, z_offset_layer_0,
                   extruder_factors, per_mesh_factors, layer_nr, input0, call, result>>

\* lines 740-743 and the next turn of the loop of line 657
LayerEnd ==
    /\ pc = "layer_end"
    /\ gcode_dict' = IF lines_changed
                     THEN [gcode_dict EXCEPT ![plate_nr][layer_nr + 1] = lines]
                     ELSE gcode_dict
    /\ gcode_changed' = (gcode_changed \/ lines_changed)
    /\ IF layer_nr + 1 < Len(gcode_dict[plate_nr])
       THEN /\ pc' = "scan"
            /\ layer_nr' = layer_nr + 1
            /\ lines' = Split(gcode_dict[plate_nr][layer_nr + 2])
            /\ line_nr' = 0
            /\ lines_changed' = FALSE
       ELSE /\ pc' = "plate_end"
            /\ UNCHANGED <<layer_nr, lines, line_nr, lines_changed>>
    /\ UNCHANGED preset_vars
    /\ UNCHANGED <<cfg, warning_msg, shown, raised_by, runs, plate_nr, new_gcode_commands,
                   pressure_advance_enabled, active_extruder_list, active_mesh_features,
                   new_layer, feature_type, plate_locals, extruder_nr, current_layer_nr,
                   current_mesh, feature_type_error, input0, tool, mesh_marker, deferred, log, call, result>>

\* lines 745-750
PlateEnd ==
    /\ pc = "plate_end"
    /\ pc' = "plate"
    /\ plate_nr' = plate_nr + 1
    /\ IF new_gcode_commands = <<>>
       THEN UNCHANGED <<gcode_dict, gcode_changed>>
       ELSE /\ gcode_dict' = [gcode_dict EXCEPT
                                ![plate_nr][2] = new_gcode_commands \o <<Blank>> \o @]
            /\ gcode_changed' = TRUE
    /\ UNCHANGED preset_vars
    /\ UNCHANGED <<cfg, warning_msg, shown, raised_by, runs, new_gcode_commands,
                   pressure_advance_enabled, active_extruder_list, active_mesh_features,
                   new_layer, feature_type, plate_locals, scan_locals, input0, tool, mesh_marker, deferred, log, call, result>>

\* lines 752-757, after the plate loop: gcode_list is the list of the last plate
\* the loop visited
Finalize ==
    /\ pc = "plate"
    /\ plate_nr > Len(gcode_dict)
    /\ LET last == Len(gcode_dict)
       IN  IF ~gcode_changed
           THEN /\ pc' = "done"
                /\ UNCHANGED <<gcode_dict, warning_msg, shown, raised_by>>
           ELSE \* _showWarningMessage (lines 1291-1293)
                /\ shown' = IF warning_msg # <<>> THEN Append(shown, warning_msg) ELSE shown
                /\ warning_msg' = <<>>
                /\ IF gcode_dict[last] = <<>>
                   THEN /\ pc' = "raised"
                        /\ raised_by' = "IndexError line 755"
                        /\ UNCHANGED gcode_dict
                   ELSE /\ pc' = "done"
                        /\ UNCHANGED raised_by
                        /\ gcode_dict' = [gcode_dict EXCEPT ![last][1] = Append(@, Processed)]
    /\ UNCHANGED preset_vars
    /\ UNCHANGED <<cfg, runs, plate_nr, gcode_changed, new_gcode_commands,
                   pressure_advance_enabled, active_extruder_list, active_mesh_features,
                   new_layer, feature_type, plate_locals, scan_locals, input0, tool, mesh_marker, deferred, log, call, result>>

Next == Begin \/ SkipPlate \/ PlateBegin \/ ScanLine \/ LayerEnd \/ PlateEnd \/ Finalize

-----------------------------------------------------------------------------
(* Inputs: settings snapshots and job sets *)

Seqs(A, n) == UNION {[1..m -> A] : m \in 0..n}

\* the pressure advance values of an extruder stack: every feature resolves to the
\* primary value unless the stack sets it
Factors(primary, own) ==
    [feature_key \in FeatureKeys |->
        IF feature_key \in DOMAIN own THEN own[feature_key] ELSE primary]

Retr(len, extra, speed, prime) ==
    [retract_length |-> len, unretract_extra_length |-> extra,
     retract_speed |-> speed, unretract_speed |-> prime]

Ext(primary, own, retr) == [pa |-> Factors(primary, own), smooth |-> 2, retr |-> retr]

Node(name, nr, inst) == [name |-> name, extruder |-> nr, inst |-> inst]

NoInst == [feature_key \in {} |-> 0]

Mzv == <<"m", "z", "v">>

BaseCfg ==
    [used |-> <<0>>, active_nr |-> 0, override_on |-> FALSE,
     firmware_retract_enabled |-> FALSE, pressure_advance_enabled |-> FALSE,
     velocity_limits_enabled |-> FALSE, input_shaper_enabled |-> FALSE,
     tuning_tower_enabled |-> FALSE, smooth_time_enabled |-> FALSE,
     z_offset_enabled |-> FALSE, experimental_features_enabled |-> FALSE,
     mesh_calibrate_enabled |-> FALSE, ui_temp_support_enabled |-> FALSE,
     mesh_calibrate_exists |-> FALSE,
     bed_temp |-> 60, nozzle_temp |-> 200, nozzle_start_temp |-> 0,
     ext |-> [nr \in {0, 1} |-> Ext(4, NoInst, Retr(1, 0, 30, 30))],
     velocity |-> <<Param("velocity", 300), Param("accel", 0),
                    Param("accel_to_decel", 0), Param("square_corner_velocity", 0)>>,
     shaper |-> <<Param("shaper_freq_x", 40), Param("shaper_freq_y", 0),
                  ParamS("shaper_type_x", Mzv), ParamS("shaper_type_y", Mzv),
                  Param("damping_ratio_x", -1), Param("damping_ratio_y", -1)>>,
     tower |-> <<ParamS("tuning_method", Factor), ParamS("command", <<"G", "1", " ", "X">>),
                 ParamS("parameter", <<"Z">>), Param("start", 1), Param("skip", 0),
                 Param("factor", 2), Param("band", 0), Param("step_delta", 1),
                 Param("step_height", 1)>>,
     z_offset_override |-> FALSE, z_offset_total |-> 1, z_offset_layer_0 |-> 0,
     nodes |-> <<Node("a", 0, NoInst)>>]

\* Settings of the scan inputs: per-feature pressure advance
CfgFill ==       \* one extruder, primary 4, FILL 6
    [BaseCfg EXCEPT !.pressure_advance_enabled = TRUE,
                    !.ext[0] = Ext(4, [FILL |-> 6], Retr(1, 0, 30, 30))]
CfgTwoOne ==     \* two extruders, only extruder 0 has a feature value of its own
    [CfgFill EXCEPT !.used = <<0, 1>>,
                    !.ext[1] = Ext(5, NoInst, Retr(2, 0, 30, 30)),
                    !.nodes = <<Node("a", 0, NoInst), Node("b", 1, NoInst)>>]
CfgTwoBoth ==    \* two extruders, both with a FILL value of their own
    [CfgTwoOne EXCEPT !.ext[1] = Ext(5, [FILL |-> 7], Retr(2, 0, 30, 30))]
CfgMesh ==       \* one extruder without feature values, mesh a overrides FILL
    [BaseCfg EXCEPT !.pressure_advance_enabled = TRUE,
                    !.nodes = <<Node("a", 0, [FILL |-> 8])>>]
CfgTwoRetract == \* two extruders, per-feature values and firmware retraction
    [CfgTwoBoth EXCEPT !.firmware_retract_enabled = TRUE]

ScanCfgs == {CfgFill, CfgTwoOne, CfgTwoBoth, CfgMesh, CfgTwoRetract}

\* Settings of the job-set inputs
CfgVelocity == [BaseCfg EXCEPT !.velocity_limits_enabled = TRUE]
CfgUniform ==    \* pressure advance without any feature value, and velocity limits
    [CfgVelocity EXCEPT !.pressure_advance_enabled = TRUE]
CfgInvalid ==    \* a primary value that is no number, after bed mesh calibration
    [BaseCfg EXCEPT !.pressure_advance_enabled = TRUE,
                    !.experimental_features_enabled = TRUE,
                    !.mesh_calibrate_enabled = TRUE,
                    !.ext[0] = Ext(NotANumber, NoInst, Retr(1, 0, 30, 30))]
CfgNoRetract ==  \* two extruders; no retraction parameter of extruder 1 is included
    [BaseCfg EXCEPT !.firmware_retract_enabled = TRUE,
                    !.used = <<0, 1>>,
                    !.ext[1] = Ext(4, NoInst, Retr(-1, -1, 0, 0))]
CfgMisc ==       \* tuning tower, input shaper, Z offsets, Klipper UI support
    [BaseCfg EXCEPT !.tuning_tower_enabled = TRUE, !.input_shaper_enabled = TRUE,
                    !.z_offset_enabled = TRUE, !.z_offset_override = TRUE,
                    !.z_offset_layer_0 = 1,
                    !.experimental_features_enabled = TRUE,
                    !.ui_temp_support_enabled = TRUE]
CfgOff == BaseCfg   \* nothing enabled

PlateCfgs == {CfgVelocity, CfgUniform, CfgInvalid, CfgNoRetract, CfgMisc, CfgFill, CfgOff}

\* Plates
Preamble == <<Other>>
StartSeq == <<Other>>

ScanAlphabet ==
    {LayerLine(1), ToolLine(0), ToolLine(1), MeshLine("a"), MeshLine("NONMESH"),
     TypeLine("FILL"), TypeLine("WALL-OUTER"), Other}

ScanPlates ==
    {<<Preamble, StartSeq, <<LayerLine(n)>> \o body>> :
        n \in {0, 2}, body \in Seqs(ScanAlphabet, MaxBody)}

FreshPlate ==
    <<Preamble, StartSeq,
      <<LayerLine(0), TypeLine("WALL-OUTER"), ZMove>>,
      <<LayerLine(1), TypeLine("WALL-OUTER"), Other, TypeLine("FILL"), Other>>>>

\* a plate saved before with velocity limits enabled
SavedPlate ==
    <<Preamble \o <<Processed>>,
      <<Signed(gcodeVelocityLimits(BaseCfg.velocity)), Blank>> \o StartSeq,
      <<LayerLine(0), TypeLine("WALL-OUTER"), ZMove>>>>

ShortPlate == <<Preamble>>

JobSets == UNION {[1..m -> {FreshPlate, SavedPlate, ShortPlate}] : m \in 1..MaxPlates}

\* Settings and plates of single cases of the scan
CfgLayer0 ==     \* one extruder with values of its own for LAYER_0, SKIRT and FILL
    [BaseCfg EXCEPT !.pressure_advance_enabled = TRUE,
                    !.ext[0] = Ext(4, ("LAYER_0" :> 3 @@ "SKIRT" :> 2 @@ "FILL" :> 6),
                                   Retr(1, 0, 30, 30))]
CfgMeshSupport == \* mesh a overrides the support features
    [BaseCfg EXCEPT !.pressure_advance_enabled = TRUE,
                    !.nodes = <<Node("a", 0, ("_SUPPORTS" :> 8))>>]
CfgMeshTree ==   \* two meshes with aggregate and explicit overrides
    [BaseCfg EXCEPT !.pressure_advance_enabled = TRUE,
                    !.nodes = <<Node("a", 0, ("_FACTORS" :> 8 @@ "_WALLS" :> 9)),
                                Node("b", 0, ("_FACTORS" :> 8 @@ "FILL" :> 7
                                              @@ "_SUPPORTS" :> 5))>>]

\* a feature-type marker before any layer marker
HeadlessPlate == <<Preamble, StartSeq, <<TypeLine("FILL"), Other>>>>
\* a feature-type name outside the key table
CustomPlate == <<Preamble, StartSeq, <<LayerLine(2), TypeLine("CUSTOM"), Other>>>>
\* a start sequence that selects extruder 1
Tool1Plate == <<Preamble, <<ToolLine(1), Other>>, <<LayerLine(2), TypeLine("FILL"), Other>>>>
\* a start sequence that selects extruder 10 first
Tool10Plate ==
    <<Preamble, <<Other, ToolLine(10), ToolLine(1)>>,
      <<LayerLine(2), TypeLine("FILL"), Other>>>>
\* moves to the first layer height in the initial layer and in the layer above it
ZPlate ==
    <<Preamble, StartSeq,
      <<LayerLine(0), ZMove, TypeLine("FILL"), ZMove>>,
      <<LayerLine(1), TypeLine("FILL"), ZMove, Other>>>>
\* support printed after the mesh, behind a NONMESH marker
SupportPlate ==
    <<Preamble, StartSeq,
      <<LayerLine(2), MeshLine("a"), TypeLine("WALL-OUTER"), Other,
        MeshLine("NONMESH"), TypeLine("SUPPORT"), Other>>>>
\* a raft layer, the initial layer and a layer above it, each with skirt and infill
RaftPlate ==
    <<Preamble, StartSeq,
      <<LayerLine(-1), TypeLine("FILL"), TypeLine("SKIRT")>>,
      <<LayerLine(0), TypeLine("SKIRT"), TypeLine("FILL")>>,
      <<LayerLine(1), TypeLine("SKIRT"), TypeLine("FILL")>>>>
\* two meshes printed in turn
TreePlate ==
    <<Preamble, StartSeq,
      <<LayerLine(2), MeshLine("a"), TypeLine("WALL-OUTER"), MeshLine("b"),
        TypeLine("FILL"), TypeLine("SUPPORT"), TypeLine("WALL-OUTER"), MeshLine("a"),
        TypeLine("WALL-OUTER"), TypeLine("FILL"), TypeLine("SUPPORT")>>>>

CfgSmooth ==     \* uniform pressure advance with smooth time
    [BaseCfg EXCEPT !.pressure_advance_enabled = TRUE, !.smooth_time_enabled = TRUE]
CfgTwoUniform == \* two extruders, uniform pressure advance of 4 and 5
    [BaseCfg EXCEPT !.pressure_advance_enabled = TRUE, !.used = <<0, 1>>,
                    !.ext[1] = Ext(5, NoInst, Retr(1, 0, 30, 30))]

CaseInputs ==
    {[gcode |-> <<pl>>, cfg |-> CfgFill] : pl \in {HeadlessPlate, CustomPlate, Tool1Plate, Tool10Plate}}
    \cup {[gcode |-> <<SupportPlate>>, cfg |-> CfgMeshSupport],
          [gcode |-> <<RaftPlate>>, cfg |-> CfgLayer0],
          [gcode |-> <<TreePlate>>, cfg |-> CfgMeshTree],
          [gcode |-> <<FreshPlate, FreshPlate>>, cfg |-> CfgSmooth],
          [gcode |-> <<FreshPlate>>, cfg |-> CfgTwoUniform],
          \* a first-layer Z offset on a plate without a move to the first layer height
          [gcode |-> <<CustomPlate>>,
           cfg |-> [BaseCfg EXCEPT !.z_offset_enabled = TRUE, !.z_offset_layer_0 = 1]],
          \* firmware retraction with two extruders and a tool change in the start sequence
          [gcode |-> <<Tool1Plate>>, cfg |-> CfgTwoRetract],
          \* the same on a machine whose start sequence selects its extruder 10
          [gcode |-> <<Tool10Plate>>,
           cfg |-> [CfgTwoRetract EXCEPT
                      !.ext = [nr \in {0, 1, 10} |->
                                 IF nr = 10 THEN Ext(5, NoInst, Retr(3, 0, 30, 30))
                                 ELSE CfgTwoRetract.ext[nr]]]],
          \* firmware retraction with extruders 0 and 2 of a machine of three in use
          [gcode |-> <<FreshPlate>>,
           cfg |-> [BaseCfg EXCEPT
                      !.firmware_retract_enabled = TRUE, !.used = <<0, 2>>,
                      !.ext = [nr \in {0, 1, 2} |-> Ext(4, NoInst, Retr(1, 0, 30, 30))]]],
          \* a first-layer Z offset alone, and a negative one next to pressure advance
          [gcode |-> <<ZPlate, ZPlate>>,
           cfg |-> [BaseCfg EXCEPT !.z_offset_enabled = TRUE, !.z_offset_layer_0 = 1]],
          [gcode |-> <<ZPlate>>,
           cfg |-> [CfgFill EXCEPT !.z_offset_enabled = TRUE, !.z_offset_layer_0 = -1]],
          \* velocity limits and pressure advance on a scene without objects
          [gcode |-> <<FreshPlate>>, cfg |-> [CfgUniform EXCEPT !.nodes = <<>>]]}

Inputs ==
    {[gcode |-> <<pl>>, cfg |-> c] : pl \in ScanPlates, c \in ScanCfgs}
    \cup {[gcode |-> js, cfg |-> c] : js \in JobSets, c \in PlateCfgs}
    \cup CaseInputs

-----------------------------------------------------------------------------
(* Tuning tower presets: _setTuningTowerPreset, _restoreUserSettings, settingWizard *)

\* no value: a setting without an instance in the top container, and the None
\* that settingWizard takes as new_value (line 1203)
NoInstance == -1

\* self._current_preset before a preset was read (line 123)
NoPreset == 0

\* the Klipper presets of getPresetDefinition (lines 1385-1433), by position
Presets == <<"default", "pressure", "accel">>

\* the tuning tower settings the presets are followed on: its three options and
\* two of its values (setting.startswith("klipper_tuning"), lines 309, 1035)
TuningSettings ==
    {"klipper_tuning_tower_enable", "klipper_tuning_tower_preset",
     "klipper_tuning_tower_override", "klipper_tuning_tower_start",
     "klipper_tuning_tower_factor"}

\* the setting an unset sub-setting takes its value from: a feature from its
\* parent aggregate, the aggregate from the primary factor
Parent(setting_key) ==
    CASE setting_key = "klipper_pressure_advance_wall_0" -> "klipper_pressure_advance_wall"
      [] setting_key = "klipper_pressure_advance_wall" -> "klipper_pressure_advance_factor"
      [] OTHER -> ""

\* the default_value property (line 1278) that the definition of a setting gives:
\* the first preset, an option off (lines 1180-1183), a number 0
DefaultValue(setting_key) ==
    IF setting_key = "klipper_tuning_tower_preset" THEN 1 ELSE 0

\* stack.getProperty(setting_key, 'value') (line 1239)
RECURSIVE Value(_, _)
Value(t, setting_key) ==
    IF t[setting_key] # NoInstance THEN t[setting_key]
    ELSE IF Parent(setting_key) # "" THEN Value(t, Parent(setting_key))
    ELSE DefaultValue(setting_key)

\* lines 1238-1283, for the actions Save, Set, Save&Set, Save&Reset, Reset and
\* Restore; st is the plugin and the stack it writes to. The dict
\* self._user_settings is a sequence of pairs: a key it already has keeps its
\* position (line 1263)
settingWizard(st, setting_key, new_value, action) ==
    LET current_value == Value(st.top, setting_key)
        value_changed == current_value # new_value
        saves == action \in {"Save", "Save&Set", "Save&Reset"}
        sets == action \in {"Set", "Save&Set", "Restore"} /\ value_changed
        resets == \/ action \in {"Reset", "Save&Reset"}
                  \/ sets /\ new_value = DefaultValue(setting_key)
        dict == st.user_settings
        saved == IF ~(saves /\ value_changed) THEN dict
                 ELSE IF \E i \in DOMAIN dict : dict[i][1] = setting_key
                 THEN [i \in DOMAIN dict |->
                          IF dict[i][1] = setting_key THEN <<setting_key, current_value>>
                          ELSE dict[i]]
                 ELSE Append(dict, <<setting_key, current_value>>)
        set == IF sets THEN [st.top EXCEPT ![setting_key] = new_value] ELSE st.top
    IN  [st EXCEPT !.user_settings = saved,
                   !.top = IF resets THEN [set EXCEPT ![setting_key] = NoInstance] ELSE set]

\* lines 1175-1200; the messages are left out
restoreUserSettings(st, reset_override) ==
    LET RECURSIVE RestoreAll(_, _)
        \* lines 1189-1190
        RestoreAll(s, dict) ==
            IF dict = <<>> THEN s
            ELSE RestoreAll(settingWizard(s, Head(dict)[1], Head(dict)[2], "Restore"),
                            Tail(dict))
        s1 == IF reset_override
              THEN settingWizard(st, "klipper_tuning_tower_override", NoInstance, "Reset")
              ELSE st
    IN  IF s1.user_settings = <<>> THEN s1
        ELSE [RestoreAll(s1, s1.user_settings) EXCEPT !.user_settings = <<>>,
                                                      !.override_on = FALSE]

\* line 1063, for a retraction length of at most 2 mm, in thousandths
suggested_factor == 5

\* lines 1377-1447, on the settings followed: pairs in dict order
getPresetDefinition(new_preset, override) ==
    LET tuning ==
            CASE Presets[new_preset] = "default" ->
                    <<<<"klipper_tuning_tower_start", 0>>, <<"klipper_tuning_tower_factor", 0>>>>
              [] Presets[new_preset] = "pressure" ->
                    <<<<"klipper_tuning_tower_start", 0>>, <<"klipper_tuning_tower_factor", 0>>>>
              [] Presets[new_preset] = "accel" ->
                    <<<<"klipper_tuning_tower_start", 1500>>>>
        other ==
            CASE Presets[new_preset] = "default" -> <<>>
              [] Presets[new_preset] = "pressure" ->
                    <<<<"klipper_accel_limit", 500>>, <<"klipper_pressure_advance_factor", 0>>>>
              [] Presets[new_preset] = "accel" ->
                    <<<<"klipper_accel_limit", 0>>, <<"klipper_pressure_advance_factor", 0>>>>
    IN  IF override THEN tuning \o other ELSE tuning

\* lines 934-1045, the whole handler; the custom presets and the messages are
\* left out
setTuningTowerPreset(st) ==
    LET \* lines 1065-1074: the dict _presetPressureAdvance returns
        presetPressureAdvance(s, preset_dict, override) ==
            [i \in DOMAIN preset_dict |->
                IF override /\ preset_dict[i][1] = "klipper_tuning_tower_factor"
                THEN <<preset_dict[i][1],
                       IF s.top[preset_dict[i][1]] = NoInstance THEN suggested_factor
                       ELSE Value(s.top, preset_dict[i][1])>>
                ELSE preset_dict[i]]
        \* lines 1032-1033: Save&Reset on the factor and on every sub-setting
        SaveAndReset(s, value) ==
            settingWizard(
                settingWizard(
                    settingWizard(s, "klipper_pressure_advance_factor", value, "Save&Reset"),
                    "klipper_pressure_advance_wall", value, "Save&Reset"),
                "klipper_pressure_advance_wall_0", value, "Save&Reset")
        RECURSIVE ApplySettings(_, _)
        \* lines 1027-1039
        ApplySettings(s, preset_settings) ==
            IF preset_settings = <<>> THEN s
            ELSE LET setting == Head(preset_settings)[1]
                     value == Head(preset_settings)[2]
                     s1 == IF setting = "klipper_pressure_advance_factor"
                           THEN SaveAndReset(s, value)
                           ELSE s
                     s2 == IF setting \in TuningSettings
                           THEN settingWizard(s1, setting, value, "Set")
                           ELSE settingWizard(s1, setting, value, "Save&Set")
                 IN  ApplySettings(s2, Tail(preset_settings))
        \* lines 980-1039, from the custom preset control on; line 1071 makes a
        \* backup on the way
        ApplyPreset(s, new_preset, override_enabled, apply_preset) ==
            LET s1 == [s EXCEPT !.current_preset = new_preset]
                pressure == Presets[new_preset] = "pressure"
                definition == getPresetDefinition(new_preset, override_enabled)
                preset_settings ==
                    IF pressure THEN presetPressureAdvance(s1, definition, override_enabled)
                    ELSE definition
                s2 == IF pressure /\ override_enabled
                      THEN settingWizard(s1, "klipper_tuning_tower_factor", NoInstance, "Save")
                      ELSE s1
            IN  IF ~apply_preset \/ preset_settings = <<>> THEN s1
                ELSE ApplySettings([s2 EXCEPT !.override_on = override_enabled],
                                   preset_settings)
    IN  IF Value(st.top, "klipper_tuning_tower_enable") = 0
        THEN [restoreUserSettings(st, TRUE) EXCEPT !.current_preset = NoPreset]
        ELSE LET s0 == IF st.current_preset = NoPreset THEN restoreUserSettings(st, TRUE)
                       ELSE st
                 new_preset == Value(s0.top, "klipper_tuning_tower_preset")
                 override_enabled == Value(s0.top, "klipper_tuning_tower_override") = 1
                 preset_changed == s0.current_preset \notin {NoPreset, new_preset}
             IN  IF ~override_enabled
                 THEN ApplyPreset(restoreUserSettings(s0, FALSE), new_preset, FALSE,
                                  preset_changed)
                 ELSE IF preset_changed THEN restoreUserSettings(s0, TRUE)
                 ELSE ApplyPreset(s0, new_preset, TRUE, ~s0.override_on)

\* the plugin and the stack, as the handler reads and leaves them
Plugin ==
    [top |-> top, user_settings |-> user_settings, override_on |-> self_override_on,
     current_preset |-> current_preset]

InitWith(inputs) ==
    /\ \E in \in inputs : gcode_dict = in.gcode /\ cfg = in.cfg
    /\ warning_msg = <<>>
    /\ shown = <<>>
    /\ pc = "idle"
    /\ raised_by = ""
    /\ runs = 0
    /\ plate_nr = 1
    /\ gcode_changed = FALSE
    /\ new_gcode_commands = <<>>
    /\ pressure_advance_enabled = FALSE
    /\ active_extruder_list = {}
    /\ active_mesh_features = {}
    /\ new_layer = "unbound"
    /\ feature_type = "unbound"
    /\ extruder_fw_retraction = NoRetraction
    /\ z_offset_layer_0 = 0
    /\ extruder_factors = <<>>
    /\ per_mesh_factors = <<>>
    /\ current_factor = <<>>
    /\ extruder_nr = 0
    /\ current_layer_nr = -1
    /\ current_mesh = "None"
    /\ feature_type_error = FALSE
    /\ layer_nr = 0
    /\ line_nr = 0
    /\ lines = <<>>
    /\ lines_changed = FALSE
    /\ input0 = gcode_dict
    /\ tool = 0
    /\ mesh_marker = "None"
    /\ deferred = "None"
    /\ log = <<>>
    \* lines 122-124; no setting has an instance
    /\ top = [s \in TuningSettings \cup {"klipper_accel_limit", "klipper_pressure_advance_factor",
                                        "klipper_pressure_advance_wall",
                                        "klipper_pressure_advance_wall_0"} |-> NoInstance]
    /\ user_settings = <<>>
    /\ self_override_on = FALSE
    /\ current_preset = NoPreset

\* no formatter call is under way
NoCall == [fn |-> "none"]
NoResult == [fn |-> "none", raised |-> "", ret |-> NoCommand]

Init == InitWith(Inputs) /\ call = NoCall /\ result = NoResult

Spec == Init /\ [][Next]_vars

\* the statements of _filterGcode run one after the other: a step of the pass that
\* can be taken is taken
SpecLive == Spec /\ WF_vars(ScanLine) /\ WF_vars(LayerEnd)

-----------------------------------------------------------------------------
(* The command formatters called on their own *)

MaxExtruderNr == 20

\* values of pressure_advance and smooth_time: no number, negative, zero, positive
AdvanceValues == {NotANumber, -1, 0, 4}
SmoothValues == {NotANumber, -1, 0, 2}

\* the call of lines 601-602 and 736-737 for extruder extruder_nr
PressureAdvanceCalls ==
    {[fn |-> "_gcodePressureAdvance", extruder_nr |-> nr,
      pressure_advance |-> pa, smooth_time |-> st] :
        nr \in 0..MaxExtruderNr, pa \in AdvanceValues, st \in SmoothValues}

\* values of a length, a speed or a limit: negative, zero, positive
SettingValues == {-1, 0, 3}

\* the mapping of lines 490-492, in the order of __velocity_limit_setting_key
VelocityCalls ==
    {[fn |-> "_gcodeVelocityLimits",
      velocity_limits |-> [i \in DOMAIN velocity_limit_setting_key |->
                              Param(velocity_limit_setting_key[i], v[i])]] :
        v \in [DOMAIN velocity_limit_setting_key -> SettingValues]}

\* the mapping of lines 464-466, in the order of __firmware_retraction_setting_key
RetractionCalls ==
    {[fn |-> "_gcodeFirmwareRetraction",
      retraction_settings |-> [i \in DOMAIN firmware_retraction_setting_key |->
                                  Param(firmware_retraction_setting_key[i], v[i])]] :
        v \in [DOMAIN firmware_retraction_setting_key -> SettingValues]}

\* the mapping of lines 503-505, in the order of __input_shaper_setting_key;
\* types mzv, ei and disabled, numbers negative, zero and positive
ShaperCalls ==
    {[fn |-> "_gcodeInputShaper",
      shaper_settings |-> <<Param("shaper_freq_x", f[1]), Param("shaper_freq_y", f[2]),
                            ParamS("shaper_type_x", t[1]), ParamS("shaper_type_y", t[2]),
                            Param("damping_ratio_x", f[3]), Param("damping_ratio_y", f[4])>>] :
        f \in [1..4 -> {-1, 0, 40}], t \in [1..2 -> {Mzv, <<"e", "i">>, Disabled}]}

\* values of klipper_tuning_tower_command
TowerCommands ==
    { <<"G", "1">>,
      <<"G", "1", " ", "X", "1", "0">>,
      <<" ", "G", "1", "\t">>,
      <<"'", "G", "1", " ", "X", "1", "0", "'">>,
      <<"G", "1", "=">>,
      <<"=", " ", "G", "1", "\t", " ", "X", "'">>,
      <<"G", "1", "'", "X">> }

\* the mapping of lines 517-520, in the order of __tuning_tower_setting_key
TowerCalls ==
    {[fn |-> "_gcodeTuningTower",
      tower_settings |-> <<ParamS("tuning_method", m), ParamS("command", c),
                           ParamS("parameter", <<"Z">>), Param("start", 1),
                           Param("skip", v[1]), Param("factor", v[2]), Param("band", v[3]),
                           Param("step_delta", v[4]), Param("step_height", 1)>>] :
        m \in {Factor, Step}, c \in TowerCommands, v \in [1..4 -> {0, 2}]}

Calls == PressureAdvanceCalls \cup VelocityCalls \cup RetractionCalls
         \cup ShaperCalls \cup TowerCalls

\* what a formatter call leaves alone besides call, result and self._warning_msg
fmt_frame == <<gcode_dict, cfg, shown, pc, raised_by, runs, plate_nr,
               gcode_changed, new_gcode_commands, pressure_advance_enabled,
               active_extruder_list, active_mesh_features, new_layer, feature_type,
               plate_locals, scan_locals, input0, tool, mesh_marker, deferred, log>>

Returned(fn, ret) == [fn |-> fn, raised |-> "", ret |-> ret]

\* lines 829-847
CallGcodeVelocityLimits ==
    /\ call.fn = "_gcodeVelocityLimits"
    /\ result = NoResult
    /\ result' = Returned(call.fn, gcodeVelocityLimits(call.velocity_limits))
    /\ warning_msg' = warning_msg \o VelocityWarnings(call.velocity_limits, cfg.override_on)
    /\ UNCHANGED preset_vars
    /\ UNCHANGED <<fmt_frame, call>>

\* lines 849-863
CallGcodeFirmwareRetraction ==
    /\ call.fn = "_gcodeFirmwareRetraction"
    /\ result = NoResult
    /\ result' = Returned(call.fn, gcodeFirmwareRetraction(call.retraction_settings))
    /\ UNCHANGED preset_vars
    /\ UNCHANGED <<fmt_frame, call, warning_msg>>

\* lines 865-889; lines 869-871 change the dict that was passed in
CallGcodeInputShaper ==
    /\ call.fn = "_gcodeInputShaper"
    /\ result = NoResult
    /\ result' = Returned(call.fn, gcodeInputShaper(call.shaper_settings))
    /\ call' = [call EXCEPT !.shaper_settings = ShaperMerge(@)]
    /\ warning_msg' = warning_msg \o ShaperWarnings(call.shaper_settings, cfg.override_on)
    /\ UNCHANGED preset_vars
    /\ UNCHANGED fmt_frame

\* lines 891-932
CallGcodeTuningTower ==
    /\ call.fn = "_gcodeTuningTower"
    /\ result = NoResult
    /\ result' = Returned(call.fn, gcodeTuningTower(call.tower_settings))
    /\ warning_msg' = warning_msg \o TowerWarnings(cfg.used)
    /\ UNCHANGED preset_vars
    /\ UNCHANGED <<fmt_frame, call>>

\* lines 601-602, 736-737: str(extruder_nr).strip('0') is passed to
\* _gcodePressureAdvance (lines 813-827), which returns or raises TypeError
CallGcodePressureAdvance ==
    /\ call.fn = "_gcodePressureAdvance"
    /\ result = NoResult
    /\ result' =
          IF PressureAdvanceRaises(call.pressure_advance, call.smooth_time)
          THEN [fn |-> call.fn, raised |-> "TypeError", ret |-> NoCommand]
          ELSE [fn |-> call.fn, raised |-> "",
                ret |-> gcodePressureAdvance(Strip0(call.extruder_nr),
                                             call.pressure_advance, call.smooth_time)]
    /\ UNCHANGED preset_vars
    /\ UNCHANGED <<gcode_dict, cfg, warning_msg, shown, pc, raised_by, runs, plate_nr,
                   gcode_changed, new_gcode_commands, pressure_advance_enabled,
                   active_extruder_list, active_mesh_features, new_layer, feature_type,
                   plate_locals, scan_locals, input0, tool, mesh_marker, deferred, log, call>>

NextFmt ==
    \/ CallGcodePressureAdvance
    \/ CallGcodeVelocityLimits
    \/ CallGcodeFirmwareRetraction
    \/ CallGcodeInputShaper
    \/ CallGcodeTuningTower

\* the plugin state a formatter reads: self._override_on (line 124, set at line
\* 1023) and the used extruder stacks (line 898)
FmtCfgs ==
    {BaseCfg, [BaseCfg EXCEPT !.override_on = TRUE], [BaseCfg EXCEPT !.used = <<0, 1>>]}

InitFmt ==
    /\ InitWith({[gcode |-> <<>>, cfg |-> c] : c \in FmtCfgs})
    /\ call \in Calls
    /\ result = NoResult

SpecFmt == InitFmt /\ [][NextFmt]_vars

-----------------------------------------------------------------------------
(* The tuning tower presets as a state machine *)

\* the values a user gives a setting: an option on or off, one of the presets,
\* a number
UserValues(setting_key) ==
    CASE setting_key \in {"klipper_tuning_tower_enable", "klipper_tuning_tower_override"} ->
            {0, 1}
      [] setting_key = "klipper_tuning_tower_preset" -> DOMAIN Presets
      [] setting_key = "klipper_tuning_tower_start" -> {0}
      [] setting_key = "klipper_tuning_tower_factor" -> {0, 20}
      [] setting_key = "klipper_accel_limit" -> {0, 3000}
      [] OTHER -> {0, 50}

\* lines 301-310: the user changes a tuning tower setting of the global stack and
\* the handler runs on the change
OnGlobalSettingChanged ==
    /\ \E setting \in TuningSettings :
         \E value \in UserValues(setting) :
            /\ Value(top, setting) # value
            /\ LET st == setTuningTowerPreset([Plugin EXCEPT !.top[setting] = value])
               IN  /\ top' = st.top
                   /\ user_settings' = st.user_settings
                   /\ self_override_on' = st.override_on
                   /\ current_preset' = st.current_preset
    /\ UNCHANGED <<gcode_dict, cfg, warning_msg, shown, pc, raised_by, runs, plate_nr,
                   gcode_changed, new_gcode_commands, pressure_advance_enabled,
                   active_extruder_list, active_mesh_features, new_layer, feature_type,
                   plate_locals, scan_locals, input0, tool, mesh_marker, deferred, log,
                   call, result>>

\* lines 154, 310: the handler runs again, as it does on a change of a tuning
\* tower setting that it made itself
SetTuningTowerPreset ==
    /\ LET st == setTuningTowerPreset(Plugin)
       IN  /\ top' = st.top
           /\ user_settings' = st.user_settings
           /\ self_override_on' = st.override_on
           /\ current_preset' = st.current_preset
    /\ UNCHANGED <<gcode_dict, cfg, warning_msg, shown, pc, raised_by, runs, plate_nr,
                   gcode_changed, new_gcode_commands, pressure_advance_enabled,
                   active_extruder_list, active_mesh_features, new_layer, feature_type,
                   plate_locals, scan_locals, input0, tool, mesh_marker, deferred, log,
                   call, result>>

\* lines 312-320: the user gives another setting a value or removes its
\* instance; the handler does not run
OnExtruderSettingChanged ==
    /\ \E setting \in DOMAIN top \ TuningSettings :
         \E value \in UserValues(setting) \cup {NoInstance} :
            top' = [top EXCEPT ![setting] = value]
    /\ UNCHANGED <<user_settings, self_override_on, current_preset>>
    /\ UNCHANGED <<gcode_dict, cfg, warning_msg, shown, pc, raised_by, runs, plate_nr,
                   gcode_changed, new_gcode_commands, pressure_advance_enabled,
                   active_extruder_list, active_mesh_features, new_layer, feature_type,
                   plate_locals, scan_locals, input0, tool, mesh_marker, deferred, log,
                   call, result>>

NextPreset == OnGlobalSettingChanged \/ SetTuningTowerPreset \/ OnExtruderSettingChanged

\* lines 118-154: the plugin after construction, with no print job to filter
SpecPreset ==
    /\ InitWith({[gcode |-> <<>>, cfg |-> BaseCfg]}) /\ call = NoCall /\ result = NoResult
    /\ [][NextPreset]_vars

TypeOK == pc \in {"idle", "plate", "scan", "layer_end", "plate_end", "done", "raised"}

-----------------------------------------------------------------------------
(* Properties *)

Finished == pc \in {"done", "raised"} /\ runs > 0

HasMarker(plate) == Len(plate) >= 1 /\ HasLine(plate[1], {Processed.k})

PlateSet == DOMAIN gcode_dict

\* the lines of a layer that are commands of kind k
CountKind(layer, k) == Cardinality({i \in DOMAIN layer : layer[i].k = k})

\* a plate the loop of line 399 works on
Processable(plate) == Len(plate) >= 2 /\ ~HasMarker(plate)

\* C1: a plate whose layer 0 holds the marker when _filterGcode starts has, when
\* _filterGcode has returned, every layer (layer 0 included) as it was before.
C1_MarkedPlateUntouched ==
    pc = "done" =>
        \A p \in PlateSet : HasMarker(input0[p]) => gcode_dict[p] = input0[p]

\* C2: idempotence: a second invocation that follows a first one changes no layer
\* of any plate.
C2_SecondRunChangesNothing ==
    (pc = "done" /\ runs = 2) => gcode_dict = input0

\* the invocation appended the marker to layer 0 of plate p
MarkerAppended(p) ==
    /\ Len(gcode_dict[p]) >= 1
    /\ Len(gcode_dict[p][1]) > Len(input0[p][1])
    /\ gcode_dict[p][1][Len(gcode_dict[p][1])] = Processed

\* the invocation changed plate p in another way than by appending the marker
MutatedBesidesMarker(p) ==
    \/ \E l \in 2..Len(gcode_dict[p]) : gcode_dict[p][l] # input0[p][l]
    \/ SubSeq(gcode_dict[p][1], 1, Len(gcode_dict[p][1]) - 1) # input0[p][1]

\* C6: when _filterGcode has returned, a plate to whose layer 0 the marker was
\* appended during the invocation has at least one other change made during the
\* invocation.
C6_MarkerOnlyOnMutatedPlate ==
    pc = "done" =>
        \A p \in PlateSet : MarkerAppended(p) => MutatedBesidesMarker(p)

\* C7: no per-plate state leaks across plates: two plates of a job set that are
\* equal before the invocation have equal start sequences and printed layers
\* after it (each being what the plate gives when processed alone), and the start
\* sequence of a plate receives the velocity limit command at most once.
C7_NoLeakAcrossPlates ==
    pc = "done" =>
        /\ \A p, q \in PlateSet :
              (input0[p] = input0[q] /\ Processable(input0[p])) =>
                  \A l \in 2..Len(gcode_dict[p]) : gcode_dict[p][l] = gcode_dict[q][l]
        /\ \A p \in PlateSet :
              Processable(input0[p]) =>
                  CountKind(gcode_dict[p][2], "SET_VELOCITY_LIMIT") <= 1

\* pressure advance is enabled and the primary value of a used extruder is no number
InvalidPrimary ==
    /\ cfg.pressure_advance_enabled
    /\ \E i \in DOMAIN cfg.used : cfg.ext[cfg.used[i]].pa["_FACTORS"] = NotANumber

\* C8: when the primary pressure advance value of a used extruder is no number,
\* the invocation ends without an exception and every layer of every plate is as
\* it was before the invocation.
C8_InvalidPrimaryLeavesPlateUntouched ==
    (Finished /\ InvalidPrimary) => (pc = "done" /\ gcode_dict = input0)

\* C9: a fatal error on one plate (here the invalid primary value) ends the work
\* on that plate only: when the invocation is over, the plate loop has reached
\* the last plate of the job set.
C9_LaterPlatesStillProcessed ==
    (Finished /\ InvalidPrimary) => plate_nr >= Len(gcode_dict)

\* firmware retraction is enabled and the formatter gives "no command" for a
\* used extruder
NoRetractionCommand ==
    /\ cfg.firmware_retract_enabled
    /\ \E i \in DOMAIN cfg.used :
          gcodeFirmwareRetraction(RetractionSettings(cfg.used[i])) = NoCommand

\* C10: when the firmware retraction formatter gives "no command" for a used
\* extruder, _filterGcode goes on and returns: the invocation does not end in
\* an exception.
C10_NoCommandNeverRaises ==
    (Finished /\ NoRetractionCommand) => pc = "done"

\* C3: in a multi-extruder job, every value resolved at a feature-type marker for
\* a feature without override on the active mesh is the value of the extruder
\* selected by the latest tool change line, and that extruder is the one the
\* inserted command names.
C3_ResolvedForToolExtruder ==
    \A i \in DOMAIN log :
        (/\ Len(cfg.used) > 1
         /\ log[i].marker = ";TYPE:"
         /\ <<log[i].mesh, log[i].feature>> \notin DOMAIN per_mesh_factors)
        => /\ log[i].nr = log[i].tool
           /\ log[i].value = cfg.ext[log[i].tool].pa[log[i].feature]

\* the pressure advance commands naming extruder nr in a plate
CountAdvance(plate, nr) ==
    LET where == {<<l, i>> \in (DOMAIN plate) \X (1..MaxOf({Len(plate[l]) : l \in DOMAIN plate})) :
                     /\ i <= Len(plate[l])
                     /\ plate[l][i].k = "SET_PRESSURE_ADVANCE"
                     /\ plate[l][i].x = Strip0(nr)}
    IN  Cardinality(where)

\* the resolutions made for extruder nr whose value differs from the one resolved
\* before for nr (from the primary value of nr for the first)
ValueChanges(nr) ==
    LET mine == {i \in DOMAIN log : log[i].nr = nr}
        before(i) == IF \E j \in mine : j < i
                     THEN log[MaxOf({j \in mine : j < i})].value
                     ELSE cfg.ext[nr].pa["_FACTORS"]
    IN  Cardinality({i \in mine : log[i].value # before(i)})

\* C4: when the scan of a plate is over, the number of pressure advance commands
\* it inserted for an extruder is the number of changes between consecutive
\* values resolved for that extruder, starting from its primary value.
C4_InsertionsEqualValueChanges ==
    pc = "plate_end" =>
        \A nr \in Range(cfg.used) :
            CountAdvance(gcode_dict[plate_nr], nr) - CountAdvance(input0[plate_nr], nr)
                = ValueChanges(nr)

\* the pressure advance command of value for extruder nr
Advance(nr, value) ==
    Ln("SET_PRESSURE_ADVANCE", "", 0, IF nr = 0 THEN <<>> ELSE <<nr>>,
       <<Param("ADVANCE", value)>>, TRUE)

\* the example of C4: primary 4, FILL 6, markers WALL-OUTER, FILL, WALL-OUTER in layer 2
C4_Witness ==
    /\ pc = "plate_end"
    /\ cfg = CfgFill
    /\ gcode_dict[1][3] = << LayerLine(2), TypeLine("WALL-OUTER"),
                             TypeLine("FILL"), Advance(0, 6),
                             TypeLine("WALL-OUTER"), Advance(0, 4) >>

\* what a step of the scan does on a feature-type marker whose resolution is
\* not deferred
C5_Step ==
    LET line == lines[line_nr + 1]
        feature == ActiveFeature(line.s, current_layer_nr)
        value == Resolve(current_mesh, feature, extruder_nr)
        at == line_nr + 2
    IN  (/\ pc = "scan"
         /\ pressure_advance_enabled
         /\ line.k = ";TYPE:"
         /\ ~Deferred(feature)
         /\ pc' # "raised")
        => /\ IF value # current_factor[extruder_nr]
              THEN /\ Len(lines') = Len(lines) + 1
                   /\ lines'[at] = Advance(extruder_nr, value)
                   /\ \A i \in 1..(at - 1) : lines'[i] = lines[i]
                   /\ \A i \in at..Len(lines) : lines'[i + 1] = lines[i]
              ELSE lines' = lines
           /\ DOMAIN current_factor' = DOMAIN current_factor
           /\ \A nr \in DOMAIN current_factor :
                 current_factor'[nr] = IF nr = extruder_nr THEN value
                                       ELSE current_factor[nr]

\* C5: a step of the scan on a feature-type marker whose resolution is not
\* deferred puts a pressure advance command for the active extruder directly
\* after the marker if and only if the resolved value differs from the value
\* last emitted for that extruder, changes no other line, and sets the last
\* emitted value of that extruder, and of no other, to the resolved value.
C5_InsertIffValueChanged == [][C5_Step]_vars

\* a command has just been inserted after a feature-type marker
C5_Witness ==
    /\ pc = "scan"
    /\ line_nr >= 1
    /\ lines[line_nr].k = ";TYPE:"
    /\ lines[line_nr + 1].k = "SET_PRESSURE_ADVANCE"
    /\ log # <<>>
    /\ log[Len(log)].inserted
    /\ log[Len(log)].line_nr = line_nr - 1
    /\ log[Len(log)].layer_nr = layer_nr

\* the scan of a plate was left by an exception while per-feature pressure
\* advance was active
ScanRaised ==
    /\ pc = "raised"
    /\ pressure_advance_enabled
    /\ raised_by \in {"UnboundLocalError line 719", "KeyError line 729"}

\* C11: with per-feature pressure advance active, no sequence of marker lines
\* makes the scan leave _filterGcode by an exception.
C11_ScanNeverRaises == ~ScanRaised

\* C12: a value resolved at a feature-type marker whose latest mesh marker is
\* ;MESH:NONMESH is the value of the active extruder for the feature: no mesh
\* override is applied after NONMESH.
C12_NoMeshAfterNonmesh ==
    \A i \in DOMAIN log :
        (log[i].marker = ";TYPE:" /\ log[i].seen = "NONMESH")
        => log[i].value = cfg.ext[log[i].nr].pa[log[i].feature]

\* a mesh marker (other than NONMESH) stands before the current line in the
\* layer being scanned
MeshMarkerBefore ==
    \E j \in 1..line_nr : lines[j].k = ";MESH:" /\ lines[j].s # "NONMESH"

\* a step that sets feature_type_error stands on a feature-type marker with no
\* mesh marker before it in its layer
C13_Step ==
    (pc = "scan" /\ ~feature_type_error /\ feature_type_error')
    => (lines[line_nr + 1].k = ";TYPE:" /\ ~MeshMarkerBefore)

\* C13: feature_type_error is set only at a feature-type marker that no mesh
\* marker precedes in its layer; a feature-type marker that follows a mesh
\* marker of its layer is never deferred.
C13_DeferredOnlyBeforeMesh == [][C13_Step]_vars

\* the value lines 728-729 give for a mesh, a feature and an extruder
ValueFor(mesh, feature, nr) ==
    IF <<mesh, feature>> \in DOMAIN per_mesh_factors
    THEN per_mesh_factors[<<mesh, feature>>]
    ELSE extruder_factors[<<nr, feature>>]

\* the value differs from the one last emitted for extruder nr
Differs(value, nr) == nr \notin DOMAIN current_factor \/ current_factor[nr] # value

\* a step of the scan on a mesh marker while feature_type_error is set, when the
\* resolution does not raise: the value of the given feature is resolved with
\* the mesh on the marker and its command is put directly before the marker
MeshStepResolves(feature) ==
    LET line == lines[line_nr + 1]
        value == ValueFor(line.s, feature, extruder_nr)
        at == line_nr + 1
    IN  (/\ pc = "scan"
         /\ pressure_advance_enabled
         /\ line.k = ";MESH:" /\ line.s # "NONMESH"
         /\ feature_type_error
         /\ pc' # "raised")
        => /\ IF Differs(value, extruder_nr)
              THEN /\ Len(lines') = Len(lines) + 1
                   /\ lines'[at] = Advance(extruder_nr, value)
                   /\ \A i \in 1..(at - 1) : lines'[i] = lines[i]
                   /\ \A i \in at..Len(lines) : lines'[i + 1] = lines[i]
                   /\ current_factor'[extruder_nr] = value
              ELSE lines' = lines /\ current_factor' = current_factor
           /\ current_mesh' = line.s
           /\ ~feature_type_error'
           /\ new_layer' = "false"

\* the same step when the active extruder has no value for the active feature:
\* line 729 raises and nothing is inserted
MeshStepRaises ==
    LET line == lines[line_nr + 1]
    IN  (/\ pc = "scan"
         /\ pressure_advance_enabled
         /\ line.k = ";MESH:" /\ line.s # "NONMESH"
         /\ feature_type_error)
        => /\ pc' = "raised" <=> <<extruder_nr, feature_type>> \notin DOMAIN extruder_factors
           /\ pc' = "raised" => lines' = lines /\ current_factor' = current_factor

\* C14: while feature_type_error is set, the step on the next mesh marker (other
\* than NONMESH) resolves the feature of the deferred feature-type marker with
\* the mesh named on the marker, puts the command directly before the marker
\* line if the value differs from the one last emitted, and clears the flag and
\* new_layer, so the next feature-type marker is not deferred.
C14_ResolvesDeferredFeature == [][MeshStepResolves(deferred)]_vars

\* C14, amended: the feature resolved at the mesh marker is the active feature,
\* that of the latest feature-type marker, which is the deferred one unless a
\* feature-type marker that was not deferred came in between; the command is put
\* directly before the marker line if and only if the value differs from the one
\* last emitted for the active extruder, the flag and new_layer are cleared; if
\* the active extruder has no value for the active feature the step raises
\* KeyError and inserts nothing.
C14_DeferredResolvedAtMesh == [][MeshStepResolves(feature_type) /\ MeshStepRaises]_vars

\* a deferred command has just been inserted before a mesh marker
C14_Witness ==
    /\ pc = "scan"
    /\ line_nr >= 1
    /\ line_nr < Len(lines)
    /\ lines[line_nr].k = "SET_PRESSURE_ADVANCE"
    /\ lines[line_nr + 1].k = ";MESH:"
    /\ ~feature_type_error
    /\ log # <<>>
    /\ log[Len(log)].marker = ";MESH:"
    /\ log[Len(log)].inserted
    /\ log[Len(log)].line_nr = line_nr - 1
    /\ log[Len(log)].layer_nr = layer_nr

\* what a step of the scan on a feature-type marker makes the active feature
C15_Step ==
    LET line == lines[line_nr + 1]
    IN  (/\ pc = "scan"
         /\ pressure_advance_enabled
         /\ line.k = ";TYPE:"
         /\ pc' # "raised")
        => /\ feature_type' = IF current_layer_nr <= 0 /\ line.s # "SKIRT"
                              THEN "LAYER_0" ELSE line.s
           /\ Len(log') > Len(log) => log'[Len(log')].feature = feature_type'

\* C15: at a feature-type marker the active feature is LAYER_0 if and only if
\* the current layer index is <= 0 and the marker does not name SKIRT; otherwise
\* it is the feature named on the marker.
C15_Layer0Remap == [][C15_Step]_vars

\* the infill of a raft layer (index -1) has been resolved as LAYER_0
C15_Witness ==
    /\ cfg = CfgLayer0
    /\ pc = "scan"
    /\ current_layer_nr = -1
    /\ feature_type = "LAYER_0"
    /\ log # <<>>
    /\ log[Len(log)].feature = "LAYER_0"
    /\ log[Len(log)].value = 3

\* the override a mesh declares for a feature: its explicit value, else the
\* value of the aggregate parent of the feature; <<>> when it declares none
Declared(inst, feature) ==
    LET walls == {"WALL-OUTER", "WALL-INNER"}
    IN  IF feature \in DOMAIN inst /\ feature \notin {"_FACTORS", "_WALLS", "_SUPPORTS"}
        THEN <<inst[feature]>>
        ELSE IF feature \in walls /\ "_WALLS" \in DOMAIN inst THEN <<inst["_WALLS"]>>
        ELSE IF feature \in walls \cup {"SKIN", "FILL"} /\ "_FACTORS" \in DOMAIN inst
        THEN <<inst["_FACTORS"]>>
        ELSE IF feature \in {"SUPPORT", "SUPPORT-INTERFACE"} /\ "_SUPPORTS" \in DOMAIN inst
        THEN <<inst["_SUPPORTS"]>>
        ELSE <<>>

\* the value the precedence rule gives for a mesh name, a feature and an extruder
Expected(mesh, feature, nr) ==
    LET named == {i \in DOMAIN cfg.nodes : cfg.nodes[i].name = mesh}
        decl == IF named = {} THEN <<>>
                ELSE Declared(cfg.nodes[CHOOSE i \in named : TRUE].inst, feature)
    IN  IF decl # <<>> THEN decl[1] ELSE cfg.ext[nr].pa[feature]

\* C16: every value resolved for a mesh m, a feature f and an extruder e is m's
\* explicit override for f, else m's override on the aggregate parent of f
\* (_WALLS before _FACTORS for the walls, _FACTORS for SKIN and FILL, _SUPPORTS
\* for the supports), else the value of extruder e for f.
C16_OverridePrecedence ==
    \A i \in DOMAIN log :
        log[i].value = Expected(log[i].mesh, log[i].feature, log[i].nr)

\* the outer wall of mesh a resolved from _WALLS, its infill from _FACTORS, and
\* the infill of mesh b from its explicit value
C16_Witness ==
    /\ cfg = CfgMeshTree
    /\ pc = "plate_end"
    /\ \E i, j, k \in DOMAIN log :
          /\ log[i].mesh = "a" /\ log[i].feature = "WALL-OUTER" /\ log[i].value = 9
          /\ log[j].mesh = "a" /\ log[j].feature = "FILL" /\ log[j].value = 8
          /\ log[k].mesh = "b" /\ log[k].feature = "FILL" /\ log[k].value = 7

\* the lines of a layer that are pressure advance commands naming extruder nr
CountAdvanceIn(layer, nr) ==
    Cardinality({i \in DOMAIN layer : /\ layer[i].k = "SET_PRESSURE_ADVANCE"
                                      /\ layer[i].x = Strip0(nr)})

\* the command kinds _filterGcode inserts
InsertedKinds ==
    {"SET_PRESSURE_ADVANCE", "SET_VELOCITY_LIMIT", "SET_RETRACTION", "SET_INPUT_SHAPER",
     "TUNING_TOWER", "SET_GCODE_OFFSET Z=", "SET_GCODE_OFFSET Z_ADJUST=",
     "BED_MESH_CALIBRATE", "G28"}

\* no mesh declares an override
NoMeshOverride == \A i \in DOMAIN cfg.nodes : DOMAIN cfg.nodes[i].inst = {}

\* pressure advance is enabled and no used extruder has a feature value that
\* differs from its primary value
UniformAdvance ==
    /\ cfg.pressure_advance_enabled
    /\ \A i \in DOMAIN cfg.used :
          \A f \in DOMAIN cfg.ext[cfg.used[i]].pa :
              cfg.ext[cfg.used[i]].pa[f] = cfg.ext[cfg.used[i]].pa["_FACTORS"]

\* C17: when no used extruder has a feature value that differs from its primary
\* value and no mesh declares an override, a plate _filterGcode has worked on
\* has no new pressure advance command in a printed layer, and its start
\* sequence has received exactly one SET_PRESSURE_ADVANCE per used extruder.
C17_UniformOneCommandPerExtruder ==
    (pc = "done" /\ UniformAdvance /\ NoMeshOverride) =>
        \A p \in PlateSet :
            Processable(input0[p]) =>
                /\ \A l \in 3..Len(gcode_dict[p]) :
                      CountKind(gcode_dict[p][l], "SET_PRESSURE_ADVANCE")
                          = CountKind(input0[p][l], "SET_PRESSURE_ADVANCE")
                /\ \A nr \in Range(cfg.used) :
                      CountAdvanceIn(gcode_dict[p][2], nr)
                          = CountAdvanceIn(input0[p][2], nr) + 1

\* C18: in a job with a single extruder and no mesh override, a plate
\* _filterGcode has worked on has received at most one command of each kind,
\* in its start sequence (layer 1), and no printed layer (layers 2 and up) has
\* changed.
C18_SingleExtruderStartOnly ==
    (pc = "done" /\ Len(cfg.used) = 1 /\ NoMeshOverride) =>
        \A p \in PlateSet :
            Processable(input0[p]) =>
                /\ \A l \in 3..Len(gcode_dict[p]) : gcode_dict[p][l] = input0[p][l]
                /\ \A k \in InsertedKinds :
                      CountKind(gcode_dict[p][2], k) <= CountKind(input0[p][2], k) + 1

\* _gcodePressureAdvance has returned a command
AdvanceReturned == result.fn = "_gcodePressureAdvance" /\ result.raised = ""

\* C19: in the command made for extruder index N, the EXTRUDER name is
\* "extruder" for N = 0 and "extruder" followed by all decimal digits of N for
\* N >= 1 (extruder10 for 10, extruder20 for 20), so that different indices
\* give different names.
C19_ExtruderNameKeepsDigits ==
    AdvanceReturned =>
        result.ret.x = IF call.extruder_nr = 0 THEN <<>> ELSE Digits(call.extruder_nr)

\* the command has a parameter of the given key
HasParam(cmd, key) == \E i \in DOMAIN cmd.p : cmd.p[i].key = key

\* C20: the command _gcodePressureAdvance returns holds ADVANCE=<factor> if and
\* only if factor >= 0, holds SMOOTH_TIME=<t> if and only if t > 0, ADVANCE
\* before SMOOTH_TIME, and always ends with the EXTRUDER parameter made of the
\* suffix it was given; it returns for every pair of numbers.
C20_AdvanceParameters ==
    /\ (/\ result.fn = "_gcodePressureAdvance"
        /\ call.pressure_advance # NotANumber
        /\ call.smooth_time # NotANumber) => result.raised = ""
    /\ AdvanceReturned =>
          LET cmd == result.ret
              adv == {i \in DOMAIN cmd.p : cmd.p[i].key = "ADVANCE"}
              smo == {i \in DOMAIN cmd.p : cmd.p[i].key = "SMOOTH_TIME"}
          IN  /\ cmd.k = "SET_PRESSURE_ADVANCE"
              /\ adv # {} <=> call.pressure_advance >= 0
              /\ smo # {} <=> call.smooth_time > 0
              /\ adv \cup smo = DOMAIN cmd.p
              /\ \A i \in adv : cmd.p[i].v = call.pressure_advance /\ i = 1
              /\ \A i \in smo : cmd.p[i].v = call.smooth_time /\ i = Len(cmd.p)
              /\ cmd.x = Strip0(call.extruder_nr)
              /\ cmd.c

\* a factor of 0 with a smooth time of 2 has given both parameters
C20_Witness ==
    /\ AdvanceReturned
    /\ call.pressure_advance = 0
    /\ call.smooth_time = 2
    /\ HasParam(result.ret, "ADVANCE")
    /\ HasParam(result.ret, "SMOOTH_TIME")

\* the value passed in under a key of the mapping
ValueOf(settings, key) ==
    settings[CHOOSE i \in DOMAIN settings : settings[i].key = key].v

\* the command holds the parameter NAME exactly once, with the value v
Holds(cmd, name, v) ==
    /\ Cardinality({i \in DOMAIN cmd.p : cmd.p[i].key = name}) = 1
    /\ \A i \in DOMAIN cmd.p : cmd.p[i].key = name => cmd.p[i].v = v /\ cmd.p[i].w = <<>>

VelocityNames ==
    {<<"velocity", "VELOCITY">>, <<"accel", "ACCEL">>, <<"accel_to_decel", "ACCEL_TO_DECEL">>}

\* what _gcodeVelocityLimits returns: each limit if and only if > 0, the corner
\* velocity if and only if >= 0, no command when nothing is included
VelocityParameters ==
    LET vl == call.velocity_limits
        scv == ValueOf(vl, "square_corner_velocity")
        cmd == result.ret
    IN  /\ \A kn \in VelocityNames :
              IF ValueOf(vl, kn[1]) > 0 THEN Holds(cmd, kn[2], ValueOf(vl, kn[1]))
              ELSE ~HasParam(cmd, kn[2])
        /\ IF scv >= 0 THEN Holds(cmd, "SQUARE_CORNER_VELOCITY", scv)
           ELSE ~HasParam(cmd, "SQUARE_CORNER_VELOCITY")
        /\ cmd = NoCommand <=> cmd.p = <<>>
        /\ cmd # NoCommand => cmd.k = "SET_VELOCITY_LIMIT"

\* C21: _gcodeVelocityLimits includes VELOCITY, ACCEL and ACCEL_TO_DECEL if and
\* only if the value is > 0, SQUARE_CORNER_VELOCITY if and only if the value is
\* >= 0, returns no command when no parameter is included, and has recorded a
\* warning whenever SQUARE_CORNER_VELOCITY=0 is included.
C21_VelocityWarnsOnZero ==
    result.fn = "_gcodeVelocityLimits" =>
        /\ VelocityParameters
        /\ Holds(result.ret, "SQUARE_CORNER_VELOCITY", 0) => warning_msg # <<>>

\* C21, amended: the warning is recorded if and only if SQUARE_CORNER_VELOCITY=0
\* is included and the warning override (self._override_on) is off; with the
\* override on no warning is recorded.
C21_VelocityParameters ==
    result.fn = "_gcodeVelocityLimits" =>
        /\ VelocityParameters
        /\ warning_msg =
              IF ValueOf(call.velocity_limits, "square_corner_velocity") = 0
                 /\ ~cfg.override_on
              THEN <<"Square Corner Velocity Limit = 0">> ELSE <<>>

\* the example of C21: all four values 0, override off
C21_Witness ==
    /\ result.fn = "_gcodeVelocityLimits"
    /\ ~cfg.override_on
    /\ \A i \in DOMAIN call.velocity_limits : call.velocity_limits[i].v = 0
    /\ result.ret.p = <<Param("SQUARE_CORNER_VELOCITY", 0)>>
    /\ Len(warning_msg) = 1

\* the string passed in under a key of the mapping, <<>> when the key is absent
StringOf(settings, key) ==
    IF \E i \in DOMAIN settings : settings[i].key = key
    THEN settings[CHOOSE i \in DOMAIN settings : settings[i].key = key].w
    ELSE <<>>

\* the shaper type of an axis ("x" or "y") in the mapping of the call, before or
\* after lines 869-871 have changed it
ShaperTypeOf(axis) ==
    IF StringOf(call.shaper_settings, "shaper_type") # <<>>
    THEN StringOf(call.shaper_settings, "shaper_type")
    ELSE StringOf(call.shaper_settings, IF axis = "x" THEN "shaper_type_x" ELSE "shaper_type_y")

\* the command holds the string parameter NAME exactly once, with the value w
HoldsString(cmd, name, w) ==
    /\ Cardinality({i \in DOMAIN cmd.p : cmd.p[i].key = name}) = 1
    /\ \A i \in DOMAIN cmd.p : cmd.p[i].key = name => cmd.p[i].w = w

ShaperNames ==
    {<<"shaper_freq_x", "SHAPER_FREQ_X">>, <<"shaper_freq_y", "SHAPER_FREQ_Y">>,
     <<"damping_ratio_x", "DAMPING_RATIO_X">>, <<"damping_ratio_y", "DAMPING_RATIO_Y">>}

\* the included values that are 0
ShaperZeros ==
    Cardinality({kn \in ShaperNames : ValueOf(call.shaper_settings, kn[1]) = 0})

\* what _gcodeInputShaper returns: one SHAPER_TYPE for equal types, one type per
\* axis otherwise, a type if and only if it is not "disabled", a frequency or a
\* damping ratio if and only if it is >= 0
ShaperParameters ==
    LET cmd == result.ret
        tx == ShaperTypeOf("x")
        ty == ShaperTypeOf("y")
    IN  /\ IF tx = ty
           THEN /\ IF tx # Disabled THEN HoldsString(cmd, "SHAPER_TYPE", UpperStr(tx))
                                    ELSE ~HasParam(cmd, "SHAPER_TYPE")
                /\ ~HasParam(cmd, "SHAPER_TYPE_X") /\ ~HasParam(cmd, "SHAPER_TYPE_Y")
           ELSE /\ IF tx # Disabled THEN HoldsString(cmd, "SHAPER_TYPE_X", UpperStr(tx))
                                    ELSE ~HasParam(cmd, "SHAPER_TYPE_X")
                /\ IF ty # Disabled THEN HoldsString(cmd, "SHAPER_TYPE_Y", UpperStr(ty))
                                    ELSE ~HasParam(cmd, "SHAPER_TYPE_Y")
                /\ ~HasParam(cmd, "SHAPER_TYPE")
        /\ \A kn \in ShaperNames :
              IF ValueOf(call.shaper_settings, kn[1]) >= 0
              THEN Holds(cmd, kn[2], ValueOf(call.shaper_settings, kn[1]))
              ELSE ~HasParam(cmd, kn[2])
        /\ cmd = NoCommand <=> cmd.p = <<>>
        /\ cmd # NoCommand => cmd.k = "SET_INPUT_SHAPER"

\* C22: _gcodeInputShaper emits one SHAPER_TYPE when the types are equal and
\* SHAPER_TYPE_X / SHAPER_TYPE_Y otherwise, a frequency or damping ratio if and
\* only if it is >= 0, a type if and only if it is not "disabled"; when one or
\* more included values are 0 exactly one warning with their count has been
\* recorded, and none when no included value is 0.
C22_ShaperWarnsOnZero ==
    result.fn = "_gcodeInputShaper" =>
        /\ ShaperParameters
        /\ warning_msg = IF ShaperZeros > 0 THEN <<ShaperWarningText(ShaperZeros)>> ELSE <<>>

\* C22, amended: the one warning with the count is recorded if and only if an
\* included value is 0 and the warning override (self._override_on) is off.
C22_ShaperParameters ==
    result.fn = "_gcodeInputShaper" =>
        /\ ShaperParameters
        /\ warning_msg = IF ShaperZeros > 0 /\ ~cfg.override_on
                         THEN <<ShaperWarningText(ShaperZeros)>> ELSE <<>>

\* equal types mzv, two values of 0 and two left out: one SHAPER_TYPE and one
\* warning that counts 2
C22_Witness ==
    /\ result.fn = "_gcodeInputShaper"
    /\ ~cfg.override_on
    /\ result.ret.p = <<Param("SHAPER_FREQ_X", 0), Param("DAMPING_RATIO_Y", 0),
                        ParamS("SHAPER_TYPE", UpperStr(Mzv))>>
    /\ warning_msg = <<"2 Input Shaper setting(s) = 0">>

LengthNames ==
    {<<"retract_length", "RETRACT_LENGTH">>,
     <<"unretract_extra_length", "UNRETRACT_EXTRA_LENGTH">>}
SpeedNames ==
    {<<"retract_speed", "RETRACT_SPEED">>, <<"unretract_speed", "UNRETRACT_SPEED">>}

\* C23: _gcodeFirmwareRetraction includes RETRACT_LENGTH and
\* UNRETRACT_EXTRA_LENGTH if and only if the value is >= 0, RETRACT_SPEED and
\* UNRETRACT_SPEED if and only if the value is > 0, and returns no command when
\* no parameter is included.
C23_RetractionParameters ==
    result.fn = "_gcodeFirmwareRetraction" =>
        LET rs == call.retraction_settings
            cmd == result.ret
        IN  /\ \A kn \in LengthNames :
                  IF ValueOf(rs, kn[1]) >= 0 THEN Holds(cmd, kn[2], ValueOf(rs, kn[1]))
                  ELSE ~HasParam(cmd, kn[2])
            /\ \A kn \in SpeedNames :
                  IF ValueOf(rs, kn[1]) > 0 THEN Holds(cmd, kn[2], ValueOf(rs, kn[1]))
                  ELSE ~HasParam(cmd, kn[2])
            /\ cmd = NoCommand <=> cmd.p = <<>>
            /\ cmd # NoCommand => cmd.k = "SET_RETRACTION"

\* a length of 0 is included next to a speed of 0 that is left out
C23_Witness ==
    /\ result.fn = "_gcodeFirmwareRetraction"
    /\ ValueOf(call.retraction_settings, "retract_length") = 0
    /\ ValueOf(call.retraction_settings, "retract_speed") = 0
    /\ HasParam(result.ret, "RETRACT_LENGTH")
    /\ ~HasParam(result.ret, "RETRACT_SPEED")

\* C24: _gcodeTuningTower leaves out SKIP and BAND when their value is 0,
\* STEP_DELTA and STEP_HEIGHT when the method is "factor", FACTOR and BAND when
\* the method is "step", writes every other parameter it was given exactly once,
\* and does not write the method.
C24_TowerParameters ==
    result.fn = "_gcodeTuningTower" =>
        LET ts == call.tower_settings
            method == StringOf(ts, "tuning_method")
            cmd == result.ret
            once(key, name, left_out) ==
                IF left_out THEN ~HasParam(cmd, name) ELSE Holds(cmd, name, ValueOf(ts, key))
        IN  /\ cmd.k = "TUNING_TOWER"
            /\ once("skip", "SKIP", ValueOf(ts, "skip") = 0)
            /\ once("band", "BAND", ValueOf(ts, "band") = 0 \/ method = Step)
            /\ once("factor", "FACTOR", method = Step)
            /\ once("step_delta", "STEP_DELTA", method = Factor)
            /\ once("step_height", "STEP_HEIGHT", method = Factor)
            /\ once("start", "START", FALSE)
            /\ HoldsString(cmd, "PARAMETER", StringOf(ts, "parameter"))
            /\ Cardinality({i \in DOMAIN cmd.p : cmd.p[i].key = "COMMAND"}) = 1
            /\ \A i \in DOMAIN cmd.p :
                  cmd.p[i].key \notin {"tuning_method", "TUNING_METHOD", "METHOD"}

\* method "factor" with skip 0 and a band, a factor and a step of 2
C24_Witness ==
    /\ result.fn = "_gcodeTuningTower"
    /\ StringOf(call.tower_settings, "tuning_method") = Factor
    /\ ValueOf(call.tower_settings, "skip") = 0
    /\ ValueOf(call.tower_settings, "step_delta") = 2
    /\ HasParam(result.ret, "BAND")
    /\ HasParam(result.ret, "FACTOR")
    /\ ~HasParam(result.ret, "SKIP")
    /\ ~HasParam(result.ret, "STEP_DELTA")

\* C25: the COMMAND value of the tuning tower command is the command with
\* spaces, tabs, quotes and "=" trimmed from its ends, wrapped in single quotes
\* if and only if it then holds more than one whitespace-separated word:
\* "G1 X10" gives 'G1 X10' and "G1" gives G1.
C25_CommandQuoting ==
    result.fn = "_gcodeTuningTower" =>
        LET given == StringOf(call.tower_settings, "command")
            w == StringOf(result.ret.p, "COMMAND")
            trimmed == Strip(given)
            quoted == Len(w) >= 2 /\ w[1] = "'" /\ w[Len(w)] = "'"
                      /\ SubSeq(w, 2, Len(w) - 1) = trimmed
        IN  /\ IF WordCount(trimmed) > 1 THEN quoted ELSE w = trimmed
            /\ given = <<"G", "1", " ", "X", "1", "0">>
                  => w = <<"'", "G", "1", " ", "X", "1", "0", "'">>
            /\ given = <<"G", "1">> => w = <<"G", "1">>

\* a command of two words between "=" and a quote is trimmed and quoted
C25_Witness ==
    /\ result.fn = "_gcodeTuningTower"
    /\ StringOf(call.tower_settings, "command") = <<"=", " ", "G", "1", "\t", " ", "X", "'">>
    /\ StringOf(result.ret.p, "COMMAND") = <<"'", "G", "1", "\t", " ", "X", "'">>

\* a step in which a formatter is called and returns or raises
FormatterStep == result = NoResult /\ result' # NoResult

\* C26: a call of a command formatter changes nothing outside its return value:
\* the mapping passed in holds the same keys and values as before, and the
\* plugin state, the warning list included, is as before.
C26_FormattersArePure ==
    [][FormatterStep => (call' = call /\ warning_msg' = warning_msg /\ cfg' = cfg)]_vars

\* the kinds of firmware command _filterGcode adds to a plate
FirmwareKinds == InsertedKinds \cup {"M190"}

\* the lines of a layer of plate p that the invocation put there
AddedLines(p, l) ==
    {gcode_dict[p][l][i] : i \in DOMAIN gcode_dict[p][l]}
        \ (IF l \in DOMAIN input0[p]
            THEN {input0[p][l][i] : i \in DOMAIN input0[p][l]} ELSE {})

\* C27: every firmware command line the invocation adds to a plate (start-sequence
\* commands of every category, per-feature pressure-advance commands, tool-change
\* retraction commands, Z-offset commands, bed-mesh calibration lines, the
\* tuning-tower command) ends with the signature comment; the only added lines
\* without it are blank lines and the two comment lines (the header of the
\* commented temperatures and the marker of a processed plate).
C27_AddedCommandsSigned ==
    \A p \in DOMAIN gcode_dict : \A l \in DOMAIN gcode_dict[p] :
        \A line \in AddedLines(p, l) :
            /\ line.k \in FirmwareKinds => line.c
            /\ ~line.c => line.k \in {"", ";Support for Klipper UI",
                                      ";KLIPPERSETTINGSPROCESSED"}

\* a finished plate that got a tuning-tower command, an input-shaper command and
\* the Z-offset commands around its first-layer move, all signed
C27_Witness ==
    /\ pc = "done"
    /\ \E p \in DOMAIN gcode_dict :
          /\ Len(gcode_dict[p]) >= 3
          /\ \A k \in {"TUNING_TOWER", "SET_INPUT_SHAPER", "SET_GCODE_OFFSET Z="} :
                \E line \in AddedLines(p, 2) : line.k = k /\ line.c
          /\ \E line \in AddedLines(p, 3) : line.k = "SET_GCODE_OFFSET Z_ADJUST=" /\ line.c

\* C28: a plate with fewer than 2 layers is not processed: when the invocation
\* has ended its layer sequence is as it was before (no command, no marker),
\* wherever it stands in the job set and whatever happened to the other plates,
\* and the invocation does not fail on it.
C28_ShortPlateUntouched ==
    Finished =>
        /\ \A p \in PlateSet : Len(input0[p]) < 2 => gcode_dict[p] = input0[p]
        /\ raised_by # "IndexError line 755"

\* the index carried by the first tool change line of a start sequence
FirstToolIndex(layer1) ==
    layer1[CHOOSE j \in DOMAIN layer1 :
               layer1[j].k = "T" /\ \A h \in 1..(j - 1) : layer1[h].k # "T"].n

\* C29: the active extruder at the start of a plate scan is the integer index of
\* the first tool change line T<int> of the start sequence (layer 1) if there is
\* one, whatever its number of digits, and the reported active extruder otherwise.
C29_StartExtruderFromStartSequence ==
    [][(pc = "plate" /\ pc' = "scan") =>
          extruder_nr' = IF HasLine(gcode_dict[plate_nr][2], {"T"})
                         THEN FirstToolIndex(gcode_dict[plate_nr][2])
                         ELSE cfg.active_nr]_vars

\* C30: when _filterGcode has returned, by whichever path, the warning list is
\* empty: every warning collected during the pass was handed to the notifier
\* and none stays behind for a later save.
C30_WarningsFlushedOnReturn ==
    (pc = "done" /\ runs > 0) => warning_msg = <<>>

\* a line without the signature a wrapped Z move gains
Plain(line) == IF line.k = ZMove.k THEN [line EXCEPT !.c = FALSE] ELSE line

\* the lines of a, in their order, are among the lines of b
RECURSIVE IsSubsequence(_, _)
IsSubsequence(a, b) ==
    IF a = <<>> THEN TRUE
    ELSE IF b = <<>> THEN FALSE
    ELSE IF Plain(Head(a)) = Plain(Head(b)) THEN IsSubsequence(Tail(a), Tail(b))
    ELSE IsSubsequence(a, Tail(b))

\* C31: the pass only adds lines: every input line of every layer of every plate
\* is in the output in the same relative order (a wrapped Z move only gains the
\* signature), no layer is added or removed, and a layer into which nothing was
\* inserted keeps exactly its input lines.
C31_OnlyAddsLines ==
    /\ Len(gcode_dict) = Len(input0)
    /\ \A p \in PlateSet :
          /\ Len(gcode_dict[p]) = Len(input0[p])
          /\ \A l \in DOMAIN input0[p] :
                /\ IsSubsequence(input0[p][l], gcode_dict[p][l])
                /\ Len(gcode_dict[p][l]) = Len(input0[p][l])
                      => gcode_dict[p][l] = input0[p][l]

\* a returned pass that wrapped the Z move of the initial layer between two
\* commands and inserted nothing into the layer above it
C31_Witness ==
    /\ pc = "done"
    /\ \E p \in PlateSet :
          /\ Len(gcode_dict[p]) >= 4
          /\ Len(gcode_dict[p][3]) = Len(input0[p][3]) + 2
          /\ \E i \in DOMAIN gcode_dict[p][3] : gcode_dict[p][3][i] = Signed(ZMove)
          /\ gcode_dict[p][4] = input0[p][4]

\* the line the next iteration of the scan visits was visited by the previous
\* one, which inserted a command before it (line 708, then line 736)
RevisitedMesh ==
    /\ log # <<>>
    /\ LET e == log[Len(log)]
       IN  e.marker = ";MESH:" /\ e.inserted /\ e.layer_nr = layer_nr
           /\ e.line_nr = line_nr - 1

\* an iteration on an inserted command, on a wrapped move or on a line visited again
SecondVisit == pc = "scan" /\ (lines[line_nr + 1].c \/ RevisitedMesh)

\* such an iteration inserts nothing and leaves the state of the scan as it was
NoSecondEffect ==
    SecondVisit =>
        /\ lines' = lines /\ lines_changed' = lines_changed
        /\ UNCHANGED <<extruder_nr, current_layer_nr, current_mesh, new_layer,
                       feature_type, feature_type_error, current_factor>>

\* the loop of line 700 was left by break: only the first-layer Z offset is active
\* and the layer index is above 0
LeftByBreak ==
    /\ ~pressure_advance_enabled /\ ~FwRetractionOn
    /\ ~(current_layer_nr' <= 0 /\ z_offset_layer_0 # 0)

\* the scan of a layer, once started, ends
ScanEnds == (pc = "scan") ~> (pc # "scan")

\* C32 as stated: the scan of a plate terminates and examines every line of every
\* layer, and no inserted line and no line visited again causes a further
\* insertion or changes the state of the scan.
C32_ExaminesEveryLine ==
    /\ [][/\ (pc = "scan" /\ pc' = "layer_end") => line_nr' = Len(lines')
          /\ NoSecondEffect]_vars
    /\ ScanEnds

\* C32, amended: the scan of a plate terminates and examines every line of every
\* layer, except the rest of a layer it leaves by break when only the first-layer
\* Z offset is active and the layer index is above 0; no inserted line and no line
\* visited again causes a further insertion or changes the state of the scan.
C32_ExaminesEveryLineUnlessBreak ==
    /\ [][/\ (pc = "scan" /\ pc' = "layer_end") => (line_nr' = Len(lines') \/ LeftByBreak)
          /\ NoSecondEffect]_vars
    /\ ScanEnds

\* the scan is about to visit a mesh marker again, after the command of a deferred
\* feature was inserted before it
C32_Witness == pc = "scan" /\ RevisitedMesh /\ lines[line_nr + 1].k = ";MESH:"

\* a layer after layer 0 of plate p is not as it was when the invocation started
Mutated(p) == \E l \in 2..Len(gcode_dict[p]) : gcode_dict[p][l] # input0[p][l]

\* C33: when an invocation has ended, by return or by an exception, each plate of
\* which at least one layer was mutated during the invocation carries the marker
\* ;KLIPPERSETTINGSPROCESSED in layer 0, in a job set of one plate or of several.
C33_MutatedPlateMarked ==
    Finished => \A p \in PlateSet : Mutated(p) => HasMarker(gcode_dict[p])

\* the scan, with per-feature pressure advance active, is about to visit an
\* ordinary line of a printed layer that follows a feature-type marker of the layer
AtPrintedLine ==
    /\ pc = "scan"
    /\ pressure_advance_enabled
    /\ layer_nr >= 2
    /\ lines[line_nr + 1].k = Other.k /\ ~lines[line_nr + 1].c
    /\ \E i, j \in 1..line_nr :
          i < j /\ lines[i].k = ";LAYER:" /\ lines[j].k = ";TYPE:"
                /\ lines[j].s \in FeatureKeys

\* C34: with per-feature pressure advance active, at every ordinary line of a
\* printed layer the value last emitted for the active extruder is the value
\* resolved for the current mesh, the current feature and the active extruder: no
\* change of mesh or of extruder without a new feature-type marker, and no
\* deferred feature-type marker, leaves a stale value in force.
C34_NoStaleValue ==
    AtPrintedLine =>
        /\ extruder_nr \in DOMAIN current_factor
        /\ current_factor[extruder_nr] = Expected(current_mesh, feature_type, extruder_nr)

\* the index on the latest layer marker before line i of layer l of a plate, -1
\* when there is none (current_layer_nr when the scan visits the line)
LayerIndexAt(plate, l, i) ==
    LET marks == {m \in (1..l) \X (1..MaxOf({Len(plate[a]) : a \in 1..l} \cup {1})) :
                     /\ m[2] <= Len(plate[m[1]])
                     /\ m[1] < l \/ m[2] < i
                     /\ plate[m[1]][m[2]].k = ";LAYER:" /\ plate[m[1]][m[2]].s = ""}
        last == CHOOSE m \in marks :
                    \A o \in marks : o[1] < m[1] \/ (o[1] = m[1] /\ o[2] <= m[2])
    IN  IF marks = {} THEN -1 ELSE plate[last[1]][last[2]].n

\* the line is the signed retraction command made of the settings of extruder nr
RetractionOf(line, nr) ==
    /\ line.k = "SET_RETRACTION" /\ line.c
    /\ \A key \in LengthNames \cup SpeedNames :
          LET v == cfg.ext[nr].retr[key[1]]
          IN  IF v > 0 \/ (v = 0 /\ key \in LengthNames)
              THEN Holds(line, key[2], v) ELSE ~HasParam(line, key[2])

\* the extruder the start sequence of a plate selects
InitialExtruder(plate) ==
    IF HasLine(plate[2], {"T"}) THEN FirstToolIndex(plate[2]) ELSE cfg.active_nr

\* C35: in a job with more than one active extruder and firmware retraction
\* enabled, when the pass has returned, every tool change line T<n> of a processed
\* plate that stands at a layer index >= 0 is directly followed by the retraction
\* command of extruder n, a tool change line before the first layer marker is
\* followed by none, and the start sequence holds the retraction command of the
\* initial extruder.
C35_ToolChangeRetraction ==
    (pc = "done" /\ cfg.firmware_retract_enabled /\ Len(cfg.used) > 1) =>
        \A p \in PlateSet : Processable(input0[p]) =>
            LET out == gcode_dict[p]
            IN  /\ \A l \in DOMAIN out : \A i \in DOMAIN out[l] :
                      (out[l][i].k = "T" /\ ~out[l][i].c /\ out[l][i].n \in Range(cfg.used)) =>
                          IF LayerIndexAt(out, l, i) >= 0
                          THEN i < Len(out[l]) /\ RetractionOf(out[l][i + 1], out[l][i].n)
                          ELSE i = Len(out[l]) \/ out[l][i + 1].k # "SET_RETRACTION"
                /\ \E i \in DOMAIN out[2] : RetractionOf(out[2][i], InitialExtruder(input0[p]))

\* C36: in a job with more than one used extruder and firmware retraction
\* enabled, a retraction command is built for every used extruder whatever the
\* index numbers of the used extruders, so neither building the table nor
\* looking a command up at a tool change fails.
C36_TableCoversUsedExtruders ==
    (cfg.firmware_retract_enabled /\ Len(cfg.used) > 1) =>
        /\ raised_by \notin {"KeyError line 473", "KeyError line 693"}
        /\ pc = "scan" => Range(cfg.used) \subseteq DOMAIN extruder_fw_retraction.cmd

\* the lines of a plate that are the given line
CountLine(plate, line) ==
    Cardinality({m \in (DOMAIN plate) \X (1..MaxOf({Len(plate[a]) : a \in DOMAIN plate})) :
                    m[2] <= Len(plate[m[1]]) /\ plate[m[1]][m[2]] = line})

\* line i of layer l of the plate stands directly between the adjustment by z
\* and the adjustment by -z
Wrapped(plate, l, i, z) ==
    /\ 1 < i /\ i < Len(plate[l])
    /\ plate[l][i - 1].k = "SET_GCODE_OFFSET Z_ADJUST=" /\ plate[l][i - 1].n = z
    /\ plate[l][i - 1].c
    /\ plate[l][i + 1].k = "SET_GCODE_OFFSET Z_ADJUST=" /\ plate[l][i + 1].n = -z
    /\ plate[l][i + 1].c

SuggestedSettingsOff ==
    /\ Value(top, "klipper_tuning_tower_enable") = 1
    /\ Value(top, "klipper_tuning_tower_override") = 0
    /\ current_preset = Value(top, "klipper_tuning_tower_preset")
    /\ user_settings = <<>>
    /\ ~self_override_on

\* the plugin after the user turned the suggested settings on and the handler ran
SuggestedApplied ==
    setTuningTowerPreset([Plugin EXCEPT !.top["klipper_tuning_tower_override"] = 1])

\* C38: applying a preset's suggested settings and then calling
\* _restoreUserSettings gives every setting outside the tuning tower, the
\* pressure advance factor and its sub-settings included, the value it had before
\* the preset was applied, and leaves _user_settings empty
C38_RestoreGivesBackValues ==
    SuggestedSettingsOff =>
        LET restored == restoreUserSettings(SuggestedApplied, TRUE)
        IN  /\ \A setting \in DOMAIN top \ TuningSettings :
                 Value(restored.top, setting) = Value(top, setting)
            /\ restored.user_settings = <<>>

\* C39: _override_on is True only while the suggested-settings option is enabled,
\* whatever the options were switched to before: every _restoreUserSettings
\* leaves it False, also when there was no saved setting to restore
C39_OverrideOnOnlyWhileEnabled ==
    self_override_on => Value(top, "klipper_tuning_tower_override") = 1

=============================================================================
